---------------------------- MODULE Spec2Model ----------------------------
(***************************************************************************)
(* Clip ingestion pipeline of aspirin2d/bucket: the POST /api/clips        *)
(* handler (src/src/index.ts), its clip tasks (processClip), the object    *)
(* store gateway (upload.ts, src/unnamed/part_004) and the clip table      *)
(* (src/src/db.ts).                                                        *)
(*                                                                         *)
(* The server is one Node.js process: code between two awaits runs         *)
(* atomically, and a continuation that is waiting on a promise runs in the *)
(* microtask that follows the promise's settlement, before any other I/O   *)
(* callback.  Each action below is therefore one I/O completion together   *)
(* with all code that runs up to the next I/O operation being issued.      *)
(***************************************************************************)
EXTENDS Integers, Sequences, FiniteSets, TLC

\* Number of POST /api/clips requests in a behaviour.
NumReq == 2
\* Largest number of clips in one request.
MaxClips == 2

Reqs == 1..NumReq
\* Origin ids, as the sequence of their '/'-separated segments.
Origins == {<<"X">>, <<"Y">>}
\* Requests by what they carry: the format (multipart/form-data or JSON), the
\* files among the form fields and the optional keys of the body; only a
\* multipart request carries files.
Requests ==
  {[format |-> format, files |-> files, keys |-> keys] :
     format \in {"multipart"}, files \in SUBSET {"video", "animation"},
     keys \in SUBSET {"origin_url", "video_url", "anim_url"}} \cup
  {[format |-> format, files |-> {}, keys |-> keys] :
     format \in {"json"},
     keys \in SUBSET {"origin_url", "video_url", "anim_url"}}
Null == "null"

VARIABLES
  payload,            \* per request: the validated UploadPayload
  animationInput,     \* per request: "none" | "file" | "url", until acquired
  animationBuffer,    \* per request: whether animationBuffer is non-null
  pc,                 \* per request: the I/O operation the handler awaits
  embeddingsPromise,  \* per request: "none" | "pending" | "ok" | "fail"
  embeddings,         \* per request: the vectors embedDescriptions resolved with
  workDir,            \* per request: "none" | "exists" | "removed"
  existingClips,      \* per request: rows returned by getClipsByOriginId
  task,               \* per request and clip index: position of the clip task
  results,            \* per request and clip index: value the task fulfilled with
  order,              \* per request: clip indices in order of task fulfilment
  processedClips,     \* per request: the handler's processedClips variable
  tx,                 \* per request: rows inserted in the open transaction
  table,              \* committed rows of table clip
  store,              \* object keys present in object storage
  response,           \* per request: the response the handler has computed
  uploaded,           \* history: keys each request's tasks uploaded successfully
  deleteIssued,       \* history: keys each request's rollback issued a delete for
  sliceCall,          \* per request and clip index: arguments of the task's
                      \* sliceAnimationBin call, <<>> before the call
  embedResponse,      \* per request: the embedding service's response in flight
  download,           \* per request: its remote downloads (video, animation)
  request,            \* per request: the request as it arrived, where a
                      \* specification draws it
  ffmpeg,             \* per request and clip index: the ffmpeg process of the
                      \* task's trimClip call and the promise it settles
  purgeLog,           \* history: per request, the calls of its old-record
                      \* cleanup that returned or threw, in order
  objectPurge,        \* per request: the locals of its deleteObjectsByOriginId
                      \* call (prefix, continuationToken, deletedKeys)
  deleteLog,          \* history: the deleteObject calls that settled, in order
  workFiles           \* per request: the files of its workspace directory

vars == <<payload, animationInput, animationBuffer, pc, embeddingsPromise, embeddings, workDir, existingClips,
          task, results, order, processedClips, tx, table, store, response,
          uploaded, deleteIssued, sliceCall, embedResponse, download,
          request, ffmpeg, purgeLog, objectPurge, deleteLog, workFiles>>

\* ------------------------------------------------------------------ data

\* The i-th clip of a payload: distinct frame ranges and descriptions per index.
ClipInput(i) ==
  [start_frame |-> i - 1, end_frame |-> i, description |-> <<"desc", i>>]

\* The vector the embedding service computes for a description.
Vector(description) == <<"vec", description>>

\* Object keys are paths: the sequence of their '/'-separated segments.
\* `clips/${originId}/${assetId}.mp4`
VideoObjectKey(originId, assetId) ==
  <<"clips">> \o originId \o << <<assetId, "mp4">> >>

\* `animations/${originId}/${assetId}.bin`
AnimationObjectKey(originId, assetId) ==
  <<"animations">> \o originId \o << <<assetId, "bin">> >>

\* An identifier drawn once per request and used by all its clip tasks.
AssetIdPerRequest(r, i) == <<r, 0>>

\* randomUUID(): one fresh identifier per clip task.
AssetId(r, i) == <<r, i>>

\* The public URL the store reports for an uploaded object.
ObjectUrl(key) == [url |-> key]

\* The null animationObjectKey and animationUrl of a clip without animation.
NoKey == <<>>
NoUrl == [url |-> NoKey]

NoPayload == [origin_id |-> <<>>, clips |-> <<>>]
\* The body of a response is { clips } or { error }.
NoError == ""
NoResponse == [status |-> 0, clips |-> <<>>, error |-> NoError]

NumClips(r) == Len(payload[r].clips)
HasAnimation(r) == animationBuffer[r]

\* A clip task that takes the embedding at the rank of its completion.
ProcessedClipByCompletion(r, i) ==
  LET clip == payload[r].clips[i]
      originId == payload[r].origin_id
      videoObjectKey == <<"clips">> \o originId \o << <<<<r, i>>, "mp4">> >>
      animationObjectKey ==
        IF animationBuffer[r]
        THEN <<"animations">> \o originId \o << <<<<r, i>>, "bin">> >>
        ELSE <<>>
  IN [originId |-> originId,
      startFrame |-> clip.start_frame,
      endFrame |-> clip.end_frame,
      description |-> clip.description,
      videoUrl |-> [url |-> videoObjectKey],
      videoObjectKey |-> videoObjectKey,
      animationUrl |-> [url |-> animationObjectKey],
      animationObjectKey |-> animationObjectKey,
      embedding |-> embeddings[r][Len(order[r]) + 1]]

\* The ProcessedClip a clip task returns.
ProcessedClip(r, i) ==
  LET clip == payload[r].clips[i]
      originId == payload[r].origin_id
      videoObjectKey == VideoObjectKey(originId, AssetId(r, i))
      animationObjectKey ==
        IF HasAnimation(r) THEN AnimationObjectKey(originId, AssetId(r, i)) ELSE NoKey
  IN [originId |-> originId,
      startFrame |-> clip.start_frame,
      endFrame |-> clip.end_frame,
      description |-> clip.description,
      videoUrl |-> ObjectUrl(videoObjectKey),
      videoObjectKey |-> videoObjectKey,
      animationUrl |-> IF animationObjectKey = NoKey THEN NoUrl
                       ELSE ObjectUrl(animationObjectKey),
      animationObjectKey |-> animationObjectKey,
      embedding |-> embeddings[r][i]]

\* The row one INSERT of persistClips adds; id stands for the SERIAL key.
Row(r, k, clipData) ==
  [id |-> <<r, k>>,
   origin_id |-> clipData.originId,
   start_frame |-> clipData.startFrame,
   end_frame |-> clipData.endFrame,
   description |-> clipData.description,
   video_url |-> clipData.videoUrl,
   animation_url |-> clipData.animationUrl,
   embedding |-> clipData.embedding]

\* No response of the embedding service has arrived.
NoEmbedResponse == [ok |-> FALSE, hasEmbeddings |-> FALSE, embeddings |-> <<>>]

\* response.headers.get("content-length") of a response without the header.
NoContentLength == [text |-> "absent", n |-> 0]

\* A download that was not started: no timer, no transfer, nothing read.
NoTransfer ==
  [timer |-> "none", state |-> "none", contentLength |-> NoContentLength,
   bodyRead |-> 0]
NoDownload == [video |-> NoTransfer, animation |-> NoTransfer]

\* No request has arrived.
NoRequest == [format |-> "none", files |-> {}, keys |-> {}]

\* The defaults of config.ffmpeg.
DefaultFfmpegConfig ==
  [gpuAcceleration |-> FALSE, gpuSpatialAQ |-> TRUE, gpuTemporalAQ |-> TRUE,
   gpuRcLookahead |-> 20]

\* The continuationToken before the first page, and the nextMarker of a last
\* page: undefined.
NoMarker == <<>>

\* deleteObjectsByOriginId was not called.
NoObjectPurge ==
  [state |-> "none", prefix |-> 0, continuationToken |-> NoMarker,
   objects |-> <<>>, nextMarker |-> NoMarker, deletedKeys |-> <<>>,
   concurrentPuts |-> 0]

\* The path of a file that was not staged.
NoPath == ""

\* A workspace without files.  named holds the files whose names derive
\* from the request (name -> content), temp the files the clip tasks name
\* after their randomUUID(), which no request-chosen name coincides with.
NoWorkFiles ==
  [videoSourcePath |-> NoPath, animationPath |-> NoPath,
   named |-> [name \in {} |-> ""], temp |-> {}]

\* No ffmpeg process was spawned.
NoProcess ==
  [transcode |-> "absent", config |-> DefaultFfmpegConfig, args |-> <<>>,
   events |-> <<>>, promise |-> "none"]

RowsOfOrigin(rows, originId) == {row \in rows : row.origin_id = originId}
RowsOfRequest(rows, r) == {row \in rows : row.id[1] = r}
Range(s) == {s[k] : k \in 1..Len(s)}

Init ==
  /\ payload = [r \in Reqs |-> NoPayload]
  /\ animationInput = [r \in Reqs |-> "none"]
  /\ animationBuffer = [r \in Reqs |-> FALSE]
  /\ pc = [r \in Reqs |-> "idle"]
  /\ embeddingsPromise = [r \in Reqs |-> "none"]
  /\ embeddings = [r \in Reqs |-> <<>>]
  /\ workDir = [r \in Reqs |-> "none"]
  /\ existingClips = [r \in Reqs |-> {}]
  /\ task = [r \in Reqs |-> [i \in 1..MaxClips |-> "none"]]
  /\ results = [r \in Reqs |-> [i \in 1..MaxClips |-> Null]]
  /\ order = [r \in Reqs |-> <<>>]
  /\ processedClips = [r \in Reqs |-> <<>>]
  /\ tx = [r \in Reqs |-> <<>>]
  /\ table = {}
  /\ store = {}
  /\ response = [r \in Reqs |-> NoResponse]
  /\ uploaded = [r \in Reqs |-> {}]
  /\ deleteIssued = [r \in Reqs |-> {}]
  /\ sliceCall = [r \in Reqs |-> [i \in 1..MaxClips |-> <<>>]]
  /\ embedResponse = [r \in Reqs |-> NoEmbedResponse]
  /\ download = [r \in Reqs |-> NoDownload]
  /\ request = [r \in Reqs |-> NoRequest]
  /\ ffmpeg = [r \in Reqs |-> [i \in 1..MaxClips |-> NoProcess]]
  /\ purgeLog = [r \in Reqs |-> <<>>]
  /\ objectPurge = [r \in Reqs |-> NoObjectPurge]
  /\ deleteLog = <<>>
  /\ workFiles = [r \in Reqs |-> NoWorkFiles]


\* ------------------------------------------------- handler: acquisition

\* The response the handler computes on an exit path.
Reply(r, status, clips) ==
  [response EXCEPT ![r] = [status |-> status, clips |-> clips, error |-> NoError]]

\* c.json({ error }, status)
Fail(r, status, error) ==
  [response EXCEPT ![r] = [status |-> status, clips |-> <<>>, error |-> error]]

\* The error texts of the 400 responses (without their backquotes).
BadRequestErrors ==
  {"ZodError", "Invalid request",
   "origin_url is required when no video file is uploaded",
   "Expected JSON payload under form field payload", "Invalid JSON payload",
   "Missing uploaded video file (form field video)"}

\* The keys uploadPayloadSchema declares: z.object drops every other key of
\* the body it parses.
SchemaKeys == {"origin_id", "origin_url", "fps", "clips"}

\* The optional keys of the parsed payload, given those of the body.
ParsedKeys(keys) == keys \cap SchemaKeys

\* videoSourceInput: the uploaded file of a multipart request; otherwise
\* payload.origin_url ?? payload.video_url; "none" when the handler answers
\* 400 for want of a source.
VideoSource(req) ==
  IF req.format = "multipart"
  THEN IF "video" \in req.files THEN "file" ELSE "none"
  ELSE IF "origin_url" \in ParsedKeys(req.keys) THEN "url"
  ELSE IF "video_url" \in ParsedKeys(req.keys) THEN "url"
  ELSE "none"

\* The animation source: animationFile if there is one, else payload.anim_url
\* if the parsed payload has it.
AnimationSource(req) ==
  IF req.format = "multipart" /\ "animation" \in req.files THEN "file"
  ELSE IF "anim_url" \in ParsedKeys(req.keys) THEN "url"
  ELSE "none"

\* The handler from a parsed payload and a video source to its first I/O
\* operation: embedDescriptions is called, then video acquisition starts.
Accept(r, req, originId, n) ==
  /\ payload' = [payload EXCEPT ![r] =
       [origin_id |-> originId, clips |-> [i \in 1..n |-> ClipInput(i)]]]
  /\ animationInput' = [animationInput EXCEPT ![r] = AnimationSource(req)]
  /\ pc' = [pc EXCEPT ![r] =
       IF VideoSource(req) = "file" THEN "mkdtemp" ELSE "fetch"]
  /\ embeddingsPromise' = [embeddingsPromise EXCEPT ![r] = "pending"]

\* Request arrival with a payload that parses and validates and a video
\* source: the embedding request is issued first, then video acquisition
\* starts.
Start(r) ==
  /\ pc[r] = "idle"
  /\ \E originId \in Origins, n \in 1..MaxClips, req \in Requests :
       /\ VideoSource(req) # "none"
       /\ Accept(r, req, originId, n)
  /\ UNCHANGED <<animationBuffer, embeddings, workDir, existingClips, task,
                 results, order, processedClips, tx, table, store, response,
                 uploaded, deleteIssued>>
  /\ UNCHANGED <<sliceCall, embedResponse, download, request, ffmpeg, purgeLog,
                 objectPurge, deleteLog, workFiles>>

\* Request arrival with a malformed or invalid payload, or without any video
\* source: 400 before anything is started.
RejectPayload(r) ==
  /\ pc[r] = "idle"
  /\ pc' = [pc EXCEPT ![r] = "done"]
  /\ \E error \in BadRequestErrors : response' = Fail(r, 400, error)
  /\ UNCHANGED <<payload, animationInput, animationBuffer,
                 embeddingsPromise, embeddings, workDir, existingClips,
                 task, results, order, processedClips, tx, table, store,
                 uploaded, deleteIssued>>
  /\ UNCHANGED <<sliceCall, embedResponse, download, request, ffmpeg, purgeLog,
                 objectPurge, deleteLog, workFiles>>

\* A handler that blames the client for an origin it cannot fetch.
VideoFetchBadRequest(r) ==
  /\ pc[r] = "fetch"
  /\ \E ok \in BOOLEAN :
       IF ok
       THEN /\ pc' = [pc EXCEPT ![r] = "mkdtemp"]
            /\ UNCHANGED response
       ELSE /\ pc' = [pc EXCEPT ![r] = "done"]
            /\ response' = Fail(r, 400, "Failed to ingest origin video")
  /\ UNCHANGED <<payload, animationInput, animationBuffer,
                 embeddingsPromise, embeddings, workDir, existingClips,
                 task, results, order, processedClips, tx, table, store,
                 uploaded, deleteIssued>>
  /\ UNCHANGED <<sliceCall, embedResponse, download, request, ffmpeg, purgeLog,
                 objectPurge, deleteLog, workFiles>>

\* downloadOriginVideo: the response headers arrive (or the fetch fails, the
\* status is not ok, the declared size is too large, or the timer aborts).
VideoFetch(r) ==
  /\ pc[r] = "fetch"
  /\ \E ok \in BOOLEAN :
       IF ok
       THEN /\ pc' = [pc EXCEPT ![r] = "mkdtemp"]
            /\ UNCHANGED response
       ELSE /\ pc' = [pc EXCEPT ![r] = "done"]
            /\ response' = Fail(r, 502, "Failed to ingest origin video")
  /\ UNCHANGED <<payload, animationInput, animationBuffer,
                 embeddingsPromise, embeddings, workDir, existingClips,
                 task, results, order, processedClips, tx, table, store,
                 uploaded, deleteIssued>>
  /\ UNCHANGED <<sliceCall, embedResponse, download, request, ffmpeg, purgeLog,
                 objectPurge, deleteLog, workFiles>>

\* mkdtemp inside downloadOriginVideo / stageUploadedVideo.
Mkdtemp(r) ==
  /\ pc[r] = "mkdtemp"
  /\ \E ok \in BOOLEAN :
       IF ok
       THEN /\ workDir' = [workDir EXCEPT ![r] = "exists"]
            /\ pc' = [pc EXCEPT ![r] = "stream"]
            /\ UNCHANGED response
       ELSE /\ pc' = [pc EXCEPT ![r] = "done"]
            /\ response' = Fail(r, 502, "Failed to ingest origin video")
            /\ UNCHANGED workDir
  /\ UNCHANGED <<payload, animationInput, animationBuffer,
                 embeddingsPromise, embeddings, existingClips,
                 task, results, order, processedClips, tx, table, store,
                 uploaded, deleteIssued>>
  /\ UNCHANGED <<sliceCall, embedResponse, download, request, ffmpeg, purgeLog,
                 objectPurge, deleteLog, workFiles>>

\* A handler that does not wait for the embedding request.
EmbeddingsNotAwaited(e) == "ok"

\* What `await embeddingsPromise` sees.
EmbeddingsAwaited(e) == e

\* A handler that cleans up the old records before it awaits the embeddings.
PurgeBeforeJoin(r, e) ==
  /\ pc' = [pc EXCEPT ![r] = IF e \in {"pending", "ok"} THEN "lookup" ELSE "cleanup"]
  /\ response' = IF e \in {"pending", "ok"} THEN response ELSE Fail(r, 502, "Failed to embed descriptions")

\* The handler from `await embeddingsPromise` on, given the promise's state e:
\* it waits while pending, issues getClipsByOriginId when fulfilled, and
\* issues cleanupTempDir before a 502 when rejected.
JoinEmbeddings(r, e) ==
  /\ pc' = [pc EXCEPT ![r] =
       CASE EmbeddingsAwaited(e) = "pending" -> "awaitEmbeddings"
         [] EmbeddingsAwaited(e) = "ok" -> "lookup"
         [] OTHER -> "cleanup"]
  /\ response' =
       IF EmbeddingsAwaited(e) \in {"pending", "ok"} THEN response
       ELSE Fail(r, 502, "Failed to embed descriptions")

\* The pipeline that writes the source video into the workspace ends.  On
\* failure the handler's catch returns 502; the directory stays.
VideoStream(r) ==
  /\ pc[r] = "stream"
  /\ \E ok \in BOOLEAN :
       IF ok
       THEN IF animationInput[r] # "none"
            THEN /\ pc' = [pc EXCEPT ![r] = "animation"]
                 /\ UNCHANGED response
            ELSE JoinEmbeddings(r, embeddingsPromise[r])
       ELSE /\ pc' = [pc EXCEPT ![r] = "done"]
            /\ response' = Fail(r, 502, "Failed to ingest origin video")
  /\ UNCHANGED <<payload, animationInput, animationBuffer,
                 embeddingsPromise, embeddings, workDir, existingClips,
                 task, results, order, processedClips, tx, table, store,
                 uploaded, deleteIssued>>
  /\ UNCHANGED <<sliceCall, embedResponse, download, request, ffmpeg, purgeLog,
                 objectPurge, deleteLog, workFiles>>

\* stageUploadedBinary (an uploaded animation file) or, without one,
\* downloadAnimationBinary (payload.anim_url), then readFile: the buffer is
\* read, or a step throws and the handler cleans up and answers 502.
AnimationAcquire(r) ==
  /\ pc[r] = "animation"
  /\ \E ok \in BOOLEAN :
       IF ok
       THEN /\ animationBuffer' = [animationBuffer EXCEPT ![r] = TRUE]
            /\ JoinEmbeddings(r, embeddingsPromise[r])
       ELSE /\ pc' = [pc EXCEPT ![r] = "cleanup"]
            /\ response' = Fail(r, 502, "Failed to ingest origin animation")
            /\ UNCHANGED animationBuffer
  /\ animationInput' = [animationInput EXCEPT ![r] = "none"]
  /\ UNCHANGED <<payload, embeddingsPromise, embeddings, workDir, existingClips,
                 task, results, order, processedClips, tx, table, store,
                 uploaded, deleteIssued>>
  /\ UNCHANGED <<sliceCall, embedResponse, download, request, ffmpeg, purgeLog,
                 objectPurge, deleteLog, workFiles>>

\* embedDescriptions settles: it resolves with one vector per description, in
\* order, or it throws.  A handler waiting on the promise continues at once.
EmbedSettle(r) ==
  /\ embeddingsPromise[r] = "pending"
  /\ \E ok \in BOOLEAN :
       LET e == IF ok THEN "ok" ELSE "fail" IN
       /\ embeddingsPromise' = [embeddingsPromise EXCEPT ![r] = e]
       /\ embeddings' = [embeddings EXCEPT ![r] =
            IF ok
            THEN [i \in 1..NumClips(r) |-> Vector(payload[r].clips[i].description)]
            ELSE <<>>]
       /\ IF pc[r] = "awaitEmbeddings"
          THEN JoinEmbeddings(r, e)
          ELSE UNCHANGED <<pc, response>>
  /\ UNCHANGED <<payload, animationInput, animationBuffer,
                 workDir, existingClips, task, results, order,
                 processedClips, tx, table, store, uploaded, deleteIssued>>
  /\ UNCHANGED <<sliceCall, embedResponse, download, request, ffmpeg, purgeLog,
                 objectPurge, deleteLog, workFiles>>

\* cleanupTempDir followed by the handler returning its response.
Cleanup(r) ==
  /\ pc[r] = "cleanup"
  /\ workDir' = [workDir EXCEPT ![r] = "removed"]
  /\ pc' = [pc EXCEPT ![r] = "done"]
  /\ UNCHANGED <<payload, animationInput, animationBuffer,
                 embeddingsPromise, embeddings, existingClips,
                 task, results, order, processedClips, tx, table, store,
                 response, uploaded, deleteIssued>>
  /\ UNCHANGED <<sliceCall, embedResponse, download, request, ffmpeg, purgeLog,
                 objectPurge, deleteLog, workFiles>>


\* ------------------------------------------ handler: old-record cleanup

\* A catch block that answers 200 with the rows inserted before the failure.
CatchPartial(r) ==
  /\ pc' = [pc EXCEPT ![r] =
       IF Len(processedClips[r]) > 0 THEN "discard" ELSE "cleanup"]
  /\ response' = Reply(r, 200, tx[r])

\* The catch block of the processing phase: rollback only when
\* processedClips is non-empty, then 500 (the finally block follows).
Catch(r) ==
  /\ pc' = [pc EXCEPT ![r] =
       IF Len(processedClips[r]) > 0 THEN "discard" ELSE "cleanup"]
  /\ response' = Fail(r, 500, "Failed to process upload")

\* A map that awaits each callback before it calls the next one: only the
\* task of the first clip is started.
FanOutSerial(r) ==
  /\ task' = [task EXCEPT ![r] = [i \in 1..MaxClips |->
       IF i = 1 THEN (IF 1 \in DOMAIN embeddings[r] THEN "trim" ELSE "failed")
       ELSE "none"]]
  /\ IF 1 \in DOMAIN embeddings[r]
     THEN /\ pc' = [pc EXCEPT ![r] = "fanout"]
          /\ UNCHANGED response
     ELSE Catch(r)

\* payload.clips.map(async (clip, index) => ...): every callback runs up to
\* its first await (the ffmpeg process is spawned); a callback without an
\* embedding throws, which rejects Promise.all.
FanOut(r) ==
  LET missing == {i \in 1..NumClips(r) : i \notin DOMAIN embeddings[r]} IN
  /\ task' = [task EXCEPT ![r] = [i \in 1..MaxClips |->
       IF i > NumClips(r) THEN "none"
       ELSE IF i \in missing THEN "failed" ELSE "trim"]]
  /\ IF missing = {}
     THEN /\ pc' = [pc EXCEPT ![r] = "fanout"]
          /\ UNCHANGED response
     ELSE Catch(r)

\* An entry of purgeLog: a call of the old-record cleanup and whether it
\* returned (ok) or threw.
PurgeCall(call, ok) == [call |-> call, ok |-> ok]

\* A handler that never cleans up old records.
NeverPurge(existing) == FALSE

\* A handler that cleans up whatever the lookup returned.
AlwaysPurge(existing) == TRUE

\* existingClips.length > 0
NeedsPurge(existing) == existing # {}

\* getClipsByOriginId returns (or throws).
Lookup(r) ==
  /\ pc[r] = "lookup"
  /\ \E ok \in BOOLEAN :
       /\ IF ok
          THEN LET existing == RowsOfOrigin(table, payload[r].origin_id) IN
               /\ existingClips' = [existingClips EXCEPT ![r] = existing]
               /\ IF NeedsPurge(existing)
                  THEN /\ pc' = [pc EXCEPT ![r] = "purgeClips"]
                       /\ UNCHANGED <<response, task>>
                  ELSE FanOut(r)
          ELSE /\ pc' = [pc EXCEPT ![r] = "cleanup"]
               /\ response' = Fail(r, 500, "Failed to cleanup old records")
               /\ UNCHANGED <<existingClips, task>>
       /\ purgeLog' = [purgeLog EXCEPT ![r] =
            Append(@, PurgeCall("getClipsByOriginId", ok))]
  /\ UNCHANGED <<payload, animationInput, animationBuffer,
                 embeddingsPromise, embeddings, workDir, results,
                 order, processedClips, tx, table, store, uploaded,
                 deleteIssued>>
  /\ UNCHANGED <<sliceCall, embedResponse, download, request, ffmpeg, objectPurge, deleteLog, workFiles>>

IsPrefix(p, s) == Len(p) <= Len(s) /\ \A k \in 1..Len(p) : s[k] = p[k]

\* The directory of an object key: its segments but the file name.
Dir(key) == SubSeq(key, 1, Len(key) - 1)

\* store.list({ prefix }): the keys that start with `${kind}/${originId}/`.
\* Every listing of the handler's model fits one page (max-keys is 1000).
ListObjects(keys, kind, originId) ==
  {key \in keys : IsPrefix(<<kind>> \o originId, Dir(key))}

\* An object cleanup whose failure is logged and swallowed: the handler goes
\* on with the next step.
DeleteObjectsIgnoringErrors(r) ==
  /\ pc[r] \in {"purgeClips", "purgeAnimations"}
  /\ \E ok \in BOOLEAN :
       /\ IF ok
          THEN LET kind == IF pc[r] = "purgeClips" THEN "clips" ELSE "animations"
                   keys == ListObjects(store, kind, payload[r].origin_id)
               IN store' = store \ keys
          ELSE UNCHANGED store
       /\ purgeLog' = [purgeLog EXCEPT ![r] =
            Append(@, PurgeCall(IF pc[r] = "purgeClips" THEN "deleteObjects:clips"
                                ELSE "deleteObjects:animations", ok))]
  /\ pc' = [pc EXCEPT ![r] =
       IF pc[r] = "purgeClips" THEN "purgeAnimations" ELSE "deleteRows"]
  /\ UNCHANGED <<payload, animationInput, animationBuffer,
                 embeddingsPromise, embeddings, workDir, existingClips,
                 task, results, order, processedClips, tx, table, uploaded,
                 deleteIssued, response>>
  /\ UNCHANGED <<sliceCall, embedResponse, download, request, ffmpeg, objectPurge, deleteLog, workFiles>>

\* deleteObjectsByOriginId, one prefix per step: store.list then
\* store.deleteMulti of the listed keys; either call may throw.
DeleteObjectsByPrefix(r) ==
  /\ pc[r] \in {"purgeClips", "purgeAnimations"}
  /\ \E ok \in BOOLEAN :
       /\ IF ok
          THEN LET kind == IF pc[r] = "purgeClips" THEN "clips" ELSE "animations"
                   keys == ListObjects(store, kind, payload[r].origin_id)
               IN /\ store' = store \ keys
                  /\ pc' = [pc EXCEPT ![r] =
                       IF pc[r] = "purgeClips" THEN "purgeAnimations" ELSE "deleteRows"]
                  /\ UNCHANGED response
          ELSE /\ pc' = [pc EXCEPT ![r] = "cleanup"]
               /\ response' = Fail(r, 500, "Failed to cleanup old records")
               /\ UNCHANGED store
       /\ purgeLog' = [purgeLog EXCEPT ![r] =
            Append(@, PurgeCall(IF pc[r] = "purgeClips" THEN "deleteObjects:clips"
                                ELSE "deleteObjects:animations", ok))]
  /\ UNCHANGED <<payload, animationInput, animationBuffer,
                 embeddingsPromise, embeddings, workDir, existingClips,
                 task, results, order, processedClips, tx, table, uploaded,
                 deleteIssued>>
  /\ UNCHANGED <<sliceCall, embedResponse, download, request, ffmpeg, objectPurge, deleteLog, workFiles>>

\* A DELETE that returns without removing any row.
DeleteClipsNothing(r) ==
  /\ pc[r] = "deleteRows"
  /\ FanOut(r)
  /\ purgeLog' = [purgeLog EXCEPT ![r] =
       Append(@, PurgeCall("deleteClipsByOriginId", TRUE))]
  /\ UNCHANGED <<payload, animationInput, animationBuffer,
                 embeddingsPromise, embeddings, workDir, existingClips,
                 results, order, processedClips, tx, table, store, uploaded,
                 deleteIssued>>
  /\ UNCHANGED <<sliceCall, embedResponse, download, request, ffmpeg, objectPurge, deleteLog, workFiles>>

\* deleteClipsByOriginId: DELETE FROM clip WHERE origin_id = $1.
DeleteClipsByOriginId(r) ==
  /\ pc[r] = "deleteRows"
  /\ \E ok \in BOOLEAN :
       /\ IF ok
          THEN /\ table' = table \ RowsOfOrigin(table, payload[r].origin_id)
               /\ FanOut(r)
          ELSE /\ pc' = [pc EXCEPT ![r] = "cleanup"]
               /\ response' = Fail(r, 500, "Failed to cleanup old records")
               /\ UNCHANGED <<table, task>>
       /\ purgeLog' = [purgeLog EXCEPT ![r] =
            Append(@, PurgeCall("deleteClipsByOriginId", ok))]
  /\ UNCHANGED <<payload, animationInput, animationBuffer,
                 embeddingsPromise, embeddings, workDir, existingClips,
                 results, order, processedClips, tx, store, uploaded,
                 deleteIssued>>
  /\ UNCHANGED <<sliceCall, embedResponse, download, request, ffmpeg, objectPurge, deleteLog, workFiles>>


\* ------------------------------------------------------------ clip tasks

\* Promise.all fulfils when every task has fulfilled.
AllFulfilled(t, n) == \A i \in 1..n : t[i] = "done"

\* The task values in the order in which the tasks fulfilled.
PromiseAllByCompletion(res, ord, n) == [k \in 1..n |-> res[ord[k]]]

\* The array Promise.all fulfils with: the task values by input position.
PromiseAll(res, ord, n) == [k \in 1..n |-> res[k]]

\* A clip task moves on to its next I/O operation.
TaskAdvance(r, i, next) ==
  /\ task' = [task EXCEPT ![r][i] = next]
  /\ UNCHANGED <<pc, response, results, order, processedClips>>

\* A clip task throws.  The first rejection rejects Promise.all, and the
\* handler, if it is still awaiting it, enters its catch block; the other
\* tasks are not cancelled.
TaskReject(r, i) ==
  /\ task' = [task EXCEPT ![r][i] = "failed"]
  /\ IF pc[r] = "fanout" THEN Catch(r) ELSE UNCHANGED <<pc, response>>
  /\ UNCHANGED <<results, order, processedClips>>

\* A clip task returns its ProcessedClip.  When it is the last one, the
\* handler assigns processedClips and calls persistClips (BEGIN is issued).
TaskFulfil(r, i) ==
  LET t == [task[r] EXCEPT ![i] = "done"]
      res == [results[r] EXCEPT ![i] = ProcessedClip(r, i)]
      ord == Append(order[r], i)
  IN /\ task' = [task EXCEPT ![r] = t]
     /\ results' = [results EXCEPT ![r] = res]
     /\ order' = [order EXCEPT ![r] = ord]
     /\ IF pc[r] = "fanout" /\ AllFulfilled(t, NumClips(r))
        THEN /\ processedClips' = [processedClips EXCEPT ![r] =
                  PromiseAll(res, ord, NumClips(r))]
             /\ pc' = [pc EXCEPT ![r] = "persist"]
             /\ UNCHANGED response
        ELSE UNCHANGED <<pc, response, processedClips>>

\* Operations on a task's own temporary files (deleteFile, the slice,
\* writeFile) touch nothing another task or request reads: each is folded
\* into the completion of the upload before it.

\* trimClip: the ffmpeg process closes or fails to spawn.  Its output lies
\* in the workspace: once that is removed, the upload that follows cannot
\* read the file, so the task throws.
TrimClip(r, i) ==
  /\ task[r][i] = "trim"
  /\ \E ok \in BOOLEAN :
       IF ok /\ workDir[r] = "exists"
       THEN TaskAdvance(r, i, "uploadVideo")
       ELSE TaskReject(r, i)
  /\ UNCHANGED <<payload, animationInput, animationBuffer,
                 embeddingsPromise, embeddings, workDir, existingClips,
                 tx, table, store, uploaded, deleteIssued>>
  /\ UNCHANGED <<sliceCall, embedResponse, download, request, ffmpeg, purgeLog,
                 objectPurge, deleteLog, workFiles>>

\* A slicer call that passes the exclusive end_frame as the last frame.
LastFrameExclusive(clip) == clip.end_frame

Max(a, b) == IF a >= b THEN a ELSE b

\* lastFrame = Math.max(clip.start_frame, clip.end_frame - 1)
LastFrame(clip) == Max(clip.start_frame, clip.end_frame - 1)

\* sliceAnimationBin(animationBuffer, clip.start_frame, lastFrame): the first
\* and the last frame of the inclusive range.
SliceArgs(clip) == <<clip.start_frame, LastFrame(clip)>>

\* uploadObject(videoObjectKey, trimmedVideoPath) throws ("fail"), or
\* returns, and then deleteFile throws ("local"), or, with an animation
\* buffer, the slicer is called and it or writeFile throws ("slice"; writeFile
\* needs the workspace), or these return too ("ok"): the task issues the
\* animation upload or returns its clip.
UploadVideo(r, i) ==
  /\ task[r][i] = "uploadVideo"
  /\ \E outcome \in {"ok", "local", "slice", "fail"} :
       IF outcome = "fail"
       THEN /\ TaskReject(r, i)
            /\ UNCHANGED <<store, uploaded, sliceCall>>
       ELSE LET key == VideoObjectKey(payload[r].origin_id, AssetId(r, i)) IN
            /\ store' = store \cup {key}
            /\ uploaded' = [uploaded EXCEPT ![r] = @ \cup {key}]
            /\ IF outcome = "local"
               THEN /\ TaskReject(r, i)
                    /\ UNCHANGED sliceCall
               ELSE IF ~HasAnimation(r)
               THEN /\ outcome = "ok"
                    /\ TaskFulfil(r, i)
                    /\ UNCHANGED sliceCall
               ELSE /\ sliceCall' = [sliceCall EXCEPT ![r][i] =
                         SliceArgs(payload[r].clips[i])]
                    /\ IF outcome = "ok" /\ workDir[r] = "exists"
                       THEN TaskAdvance(r, i, "uploadAnimation")
                       ELSE TaskReject(r, i)
  /\ UNCHANGED <<payload, animationInput, animationBuffer,
                 embeddingsPromise, embeddings, workDir, existingClips,
                 tx, table, deleteIssued>>
  /\ UNCHANGED <<embedResponse, download, request, ffmpeg, purgeLog, objectPurge, deleteLog, workFiles>>

\* uploadObject(animationObjectKey, animationPath) throws ("fail"), or
\* returns, and then deleteFile throws ("local") or returns ("ok").
UploadAnimation(r, i) ==
  /\ task[r][i] = "uploadAnimation"
  /\ \E outcome \in {"ok", "local", "fail"} :
       IF outcome = "fail"
       THEN /\ TaskReject(r, i)
            /\ UNCHANGED <<store, uploaded>>
       ELSE LET key == AnimationObjectKey(payload[r].origin_id, AssetId(r, i)) IN
            /\ store' = store \cup {key}
            /\ uploaded' = [uploaded EXCEPT ![r] = @ \cup {key}]
            /\ IF outcome = "local" THEN TaskReject(r, i) ELSE TaskFulfil(r, i)
  /\ UNCHANGED <<payload, animationInput, animationBuffer,
                 embeddingsPromise, embeddings, workDir, existingClips,
                 tx, table, deleteIssued>>
  /\ UNCHANGED <<sliceCall, embedResponse, download, request, ffmpeg, purgeLog,
                 objectPurge, deleteLog, workFiles>>

\* ------------------------------------------------ persistence, rollback

\* An INSERT outside any transaction: the row is committed at once.
TxInsertAutocommit(tbl, txr, row) ==
  [table |-> tbl \cup {row}, tx |-> Append(txr, row)]

\* An INSERT inside the transaction: the row is not visible to other
\* connections until COMMIT.
TxInsertEffect(tbl, txr, row) == [table |-> tbl, tx |-> Append(txr, row)]

\* persistClips: the next INSERT ... RETURNING of the transaction returns,
\* or it throws, the transaction rolls back and the handler's catch runs.
TxInsert(r) ==
  /\ pc[r] = "persist"
  /\ Len(tx[r]) < Len(processedClips[r])
  /\ \E ok \in BOOLEAN :
       IF ok
       THEN LET k == Len(tx[r]) + 1
                eff == TxInsertEffect(table, tx[r], Row(r, k, processedClips[r][k]))
            IN /\ table' = eff.table
               /\ tx' = [tx EXCEPT ![r] = eff.tx]
               /\ UNCHANGED <<pc, response>>
       ELSE /\ tx' = [tx EXCEPT ![r] = <<>>]
            /\ Catch(r)
            /\ UNCHANGED table
  /\ UNCHANGED <<payload, animationInput, animationBuffer,
                 embeddingsPromise, embeddings, workDir, existingClips,
                 task, results, order, processedClips, store, uploaded,
                 deleteIssued>>
  /\ UNCHANGED <<sliceCall, embedResponse, download, request, ffmpeg, purgeLog,
                 objectPurge, deleteLog, workFiles>>

\* persistClips: COMMIT returns and the handler answers 200 with the inserted
\* rows (the finally block follows), or COMMIT throws and nothing is kept.
TxCommit(r) ==
  /\ pc[r] = "persist"
  /\ Len(tx[r]) = Len(processedClips[r])
  /\ \E ok \in BOOLEAN :
       IF ok
       THEN /\ table' = table \cup Range(tx[r])
            /\ response' = Reply(r, 200, tx[r])
            /\ pc' = [pc EXCEPT ![r] = "cleanup"]
            /\ UNCHANGED tx
       ELSE /\ tx' = [tx EXCEPT ![r] = <<>>]
            /\ Catch(r)
            /\ UNCHANGED table
  /\ UNCHANGED <<payload, animationInput, animationBuffer,
                 embeddingsPromise, embeddings, workDir, existingClips,
                 task, results, order, processedClips, store, uploaded,
                 deleteIssued>>
  /\ UNCHANGED <<sliceCall, embedResponse, download, request, ffmpeg, purgeLog,
                 objectPurge, deleteLog, workFiles>>

\* A rollback that forgets the animation keys.
DiscardVideoKeys(clips) == {clips[k].videoObjectKey : k \in 1..Len(clips)}

\* The keys discardUploadedObjects deletes: every non-null video and
\* animation key of the clips it is given.
DiscardKeys(clips) ==
  {clips[k].videoObjectKey : k \in 1..Len(clips)} \cup
  {clips[k].animationObjectKey :
     k \in {j \in 1..Len(clips) : clips[j].animationObjectKey # NoKey}}

\* A rollback that deletes one key after the other and gives up at the first
\* delete that throws: the keys after it are never attempted.
DiscardUntilFirstError(r) ==
  /\ pc[r] = "discard"
  /\ LET keys == DiscardKeys(processedClips[r]) IN
     \E attempted \in SUBSET keys, failed \in SUBSET keys :
       /\ failed \subseteq attempted
       /\ failed = {} <=> attempted = keys
       /\ Cardinality(failed) <= 1
       /\ store' = store \ (attempted \ failed)
       /\ deleteIssued' = [deleteIssued EXCEPT ![r] = @ \cup attempted]
  /\ pc' = [pc EXCEPT ![r] = "cleanup"]
  /\ UNCHANGED <<payload, animationInput, animationBuffer,
                 embeddingsPromise, embeddings, workDir, existingClips,
                 task, results, order, processedClips, tx, table, response,
                 uploaded>>
  /\ UNCHANGED <<sliceCall, embedResponse, download, request, ffmpeg, purgeLog,
                 objectPurge, deleteLog, workFiles>>

\* discardUploadedObjects: one deleteObject per key; a delete that fails
\* (the keys in failed) is logged and swallowed.
DiscardUploadedObjects(r) ==
  /\ pc[r] = "discard"
  /\ LET keys == DiscardKeys(processedClips[r]) IN
     /\ \E failed \in SUBSET keys : store' = store \ (keys \ failed)
     /\ deleteIssued' = [deleteIssued EXCEPT ![r] = @ \cup keys]
  /\ pc' = [pc EXCEPT ![r] = "cleanup"]
  /\ UNCHANGED <<payload, animationInput, animationBuffer,
                 embeddingsPromise, embeddings, workDir, existingClips,
                 task, results, order, processedClips, tx, table, response,
                 uploaded>>
  /\ UNCHANGED <<sliceCall, embedResponse, download, request, ffmpeg, purgeLog,
                 objectPurge, deleteLog, workFiles>>

\* ------------------------------------------------------- specification

Handler(r) ==
  \/ RejectPayload(r)
  \/ VideoFetch(r)
  \/ Mkdtemp(r)
  \/ VideoStream(r)
  \/ AnimationAcquire(r)
  \/ EmbedSettle(r)
  \/ Lookup(r)
  \/ DeleteObjectsByPrefix(r)
  \/ DeleteClipsByOriginId(r)
  \/ TxInsert(r)
  \/ TxCommit(r)
  \/ DiscardUploadedObjects(r)
  \/ Cleanup(r)

ClipTask(r, i) ==
  \/ TrimClip(r, i)
  \/ UploadVideo(r, i)
  \/ UploadAnimation(r, i)

\* Requests arrive at any time and interleave at their I/O operations.
Next ==
  \/ \E r \in Reqs : Start(r)
  \/ \E r \in Reqs : Handler(r)
  \/ \E r \in Reqs, i \in 1..MaxClips : ClipTask(r, i)

Spec == Init /\ [][Next]_vars

\* Nothing of request r is in progress: no handler step, no clip task and no
\* embedding request is outstanding.
Quiescent(r) ==
  /\ pc[r] \in {"idle", "done"}
  /\ embeddingsPromise[r] # "pending"
  /\ \A i \in 1..MaxClips : task[r][i] \in {"none", "done", "failed"}

\* A request arrives while nothing of any other request is in progress.
StartAlone(r) ==
  /\ \A q \in Reqs \ {r} : Quiescent(q)
  /\ Start(r)

\* Requests run one at a time.
NextSeq ==
  \/ \E r \in Reqs : StartAlone(r)
  \/ \E r \in Reqs : Handler(r)
  \/ \E r \in Reqs, i \in 1..MaxClips : ClipTask(r, i)

SpecSeq == Init /\ [][NextSeq]_vars

\* ------------------------------------------------------ payload parsing

\* config.embedding.maxBatch, config.video.defaultFps and the limits of
\* uploadPayloadSchema.
MaxBatch == 10
DefaultFps == 30
MaxFps == 240
MaxDescription == 512

\* Request bodies as they arrive.  A body is malformed (not JSON, or the
\* multipart field `payload` is missing) or carries origin_id, fps (<<>> when
\* absent), origin_url ("absent", "valid" or "invalid") and clips; a
\* multipart request may carry a video file.  Strings are sequences.
RawClips ==
  [start_frame : {-1, 0, 1}, end_frame : {0, 1, 2},
   description : {<<>>, <<"d">>}]

RawClipLists ==
  UNION {[1..n -> RawClips] : n \in 0..MaxClips}

GoodClip == [start_frame |-> 0, end_frame |-> 1, description |-> <<"d">>]

RawBody(originId, fps, originUrl, clips) ==
  [malformed |-> FALSE, origin_id |-> originId, fps |-> fps,
   origin_url |-> originUrl, clips |-> clips]

Bodies ==
  {RawBody(originId, fps, originUrl, clips) :
     originId \in {<<>>, <<"X">>},
     fps \in {<<>>, <<0>>, <<1>>, <<MaxFps>>, <<MaxFps + 1>>},
     originUrl \in {"absent", "valid", "invalid"},
     clips \in RawClipLists}
  \cup {[RawBody(<<"X">>, <<>>, "valid", <<GoodClip>>) EXCEPT !.malformed = TRUE],
        RawBody(<<"X">>, <<>>, "valid", [k \in 1..MaxBatch + 1 |-> GoodClip]),
        RawBody(<<"X">>, <<>>, "valid", [k \in 1..MaxBatch |-> GoodClip]),
        RawBody(<<"X">>, <<>>, "valid",
                <<[GoodClip EXCEPT !.description = [k \in 1..MaxDescription + 1 |-> "d"]]>>),
        RawBody(<<"X">>, <<>>, "valid",
                <<[GoodClip EXCEPT !.description = [k \in 1..MaxDescription |-> "d"]]>>)}

\* A clip schema without the refinement end_frame > start_frame.
ClipInputSchemaUnrefined(clip) ==
  /\ clip.start_frame >= 0
  /\ clip.end_frame > 0
  /\ Len(clip.description) >= 1
  /\ Len(clip.description) <= MaxDescription

\* clipInputSchema
ClipInputSchema(clip) ==
  /\ clip.start_frame >= 0
  /\ clip.end_frame > 0
  /\ Len(clip.description) >= 1
  /\ Len(clip.description) <= MaxDescription
  /\ clip.end_frame > clip.start_frame

\* fps of the parsed payload: the default when the field is absent.
Fps(body) == IF body.fps = <<>> THEN DefaultFps ELSE body.fps[1]

\* uploadPayloadSchema.parse succeeds.
UploadPayloadSchema(body) ==
  /\ Len(body.origin_id) >= 1
  /\ body.origin_url # "invalid"
  /\ Fps(body) > 0
  /\ Fps(body) <= MaxFps
  /\ Len(body.clips) >= 1
  /\ Len(body.clips) <= MaxBatch
  /\ \A k \in 1..Len(body.clips) : ClipInputSchema(body.clips[k])

\* The error text of the 400 response to a body that is malformed, fails
\* validation or comes without a video source.  A malformed multipart body
\* lacks the field `payload` or holds text that is no JSON.
BadRequestError(format, body, video) ==
  IF body.malformed
  THEN IF format = "multipart"
       THEN {"Expected JSON payload under form field payload",
             "Invalid JSON payload"}
       ELSE {"Invalid request"}
  ELSE IF ~UploadPayloadSchema(body) THEN {"ZodError"}
  ELSE IF format = "multipart"
  THEN {"Missing uploaded video file (form field video)"}
  ELSE {"origin_url is required when no video file is uploaded"}

\* The requests of a behaviour all send the same body.
InitParse ==
  /\ \E body \in Bodies : payload = [r \in Reqs |-> body]
  /\ animationInput = [r \in Reqs |-> "none"]
  /\ animationBuffer = [r \in Reqs |-> FALSE]
  /\ pc = [r \in Reqs |-> "idle"]
  /\ embeddingsPromise = [r \in Reqs |-> "none"]
  /\ embeddings = [r \in Reqs |-> <<>>]
  /\ workDir = [r \in Reqs |-> "none"]
  /\ existingClips = [r \in Reqs |-> {}]
  /\ task = [r \in Reqs |-> [i \in 1..MaxClips |-> "none"]]
  /\ results = [r \in Reqs |-> [i \in 1..MaxClips |-> Null]]
  /\ order = [r \in Reqs |-> <<>>]
  /\ processedClips = [r \in Reqs |-> <<>>]
  /\ tx = [r \in Reqs |-> <<>>]
  /\ table = {}
  /\ store = {}
  /\ response = [r \in Reqs |-> NoResponse]
  /\ uploaded = [r \in Reqs |-> {}]
  /\ deleteIssued = [r \in Reqs |-> {}]
  /\ sliceCall = [r \in Reqs |-> [i \in 1..MaxClips |-> <<>>]]
  /\ embedResponse = [r \in Reqs |-> NoEmbedResponse]
  /\ download = [r \in Reqs |-> NoDownload]
  /\ request = [r \in Reqs |-> NoRequest]
  /\ ffmpeg = [r \in Reqs |-> [i \in 1..MaxClips |-> NoProcess]]
  /\ purgeLog = [r \in Reqs |-> <<>>]
  /\ objectPurge = [r \in Reqs |-> NoObjectPurge]
  /\ deleteLog = <<>>
  /\ workFiles = [r \in Reqs |-> NoWorkFiles]

\* The handler from the arrival of a request to its first I/O operation:
\* the body is parsed and validated and the video source is determined (400
\* otherwise), then embedDescriptions is called and video acquisition
\* starts.  video is "file", "url" or "none".
Parse(r, format, video, anim) ==
  /\ pc[r] = "idle"
  /\ IF ~payload[r].malformed /\ UploadPayloadSchema(payload[r]) /\ video # "none"
     THEN /\ embeddingsPromise' = [embeddingsPromise EXCEPT ![r] = "pending"]
          /\ animationInput' = [animationInput EXCEPT ![r] = anim]
          /\ pc' = [pc EXCEPT ![r] = IF video = "file" THEN "mkdtemp" ELSE "fetch"]
          /\ UNCHANGED response
     ELSE /\ pc' = [pc EXCEPT ![r] = "done"]
          /\ \E error \in BadRequestError(format, payload[r], video) :
               response' = Fail(r, 400, error)
          /\ UNCHANGED <<embeddingsPromise, animationInput>>
  /\ UNCHANGED <<payload, animationBuffer, embeddings, workDir, existingClips,
                 task, results, order, processedClips, tx, table, store,
                 uploaded, deleteIssued>>
  /\ UNCHANGED <<sliceCall, embedResponse, download, request, ffmpeg, purgeLog,
                 objectPurge, deleteLog, workFiles>>

\* The request that carries a body, given its format, its files and
\* whether the body has anim_url.
RequestOf(format, files, body, animUrl) ==
  [format |-> format, files |-> files,
   keys |-> (IF body.origin_url = "absent" THEN {} ELSE {"origin_url"}) \cup
            (IF animUrl THEN {"anim_url"} ELSE {})]

\* A multipart/form-data request: the video is the uploaded file, if any; the
\* animation is the uploaded file or else anim_url.
ParseMultipart(r) ==
  \E files \in SUBSET {"video", "animation"}, animUrl \in BOOLEAN :
    LET req == RequestOf("multipart", files, payload[r], animUrl) IN
    Parse(r, "multipart", VideoSource(req), AnimationSource(req))

\* Any other request: the body is the JSON payload, the video is origin_url.
ParseJson(r) ==
  \E animUrl \in BOOLEAN :
    LET req == RequestOf("json", {}, payload[r], animUrl) IN
    Parse(r, "json", VideoSource(req), AnimationSource(req))

NextParse ==
  \/ \E r \in Reqs : ParseMultipart(r)
  \/ \E r \in Reqs : ParseJson(r)

SpecParse == InitParse /\ [][NextParse]_vars

\* ------------------------------------------------------------- rollback

\* The handler is about to call discardUploadedObjects: every clip task of
\* the request returned, persistClips threw, and the catch block holds the
\* processed clips.  Of the objects they name, any may be gone from the
\* store already (a concurrent replacement of the same origin_id purged it).
InitDiscard ==
  /\ \E originId \in [Reqs -> Origins], n \in [Reqs -> 1..MaxClips] :
       payload = [r \in Reqs |->
         [origin_id |-> originId[r], clips |-> [i \in 1..n[r] |-> ClipInput(i)]]]
  /\ animationInput = [r \in Reqs |-> "none"]
  /\ animationBuffer \in [Reqs -> BOOLEAN]
  /\ pc = [r \in Reqs |-> "discard"]
  /\ embeddingsPromise = [r \in Reqs |-> "ok"]
  /\ embeddings = [r \in Reqs |->
       [i \in 1..NumClips(r) |-> Vector(payload[r].clips[i].description)]]
  /\ workDir = [r \in Reqs |-> "exists"]
  /\ existingClips = [r \in Reqs |-> {}]
  /\ task = [r \in Reqs |-> [i \in 1..MaxClips |->
       IF i <= NumClips(r) THEN "done" ELSE "none"]]
  /\ results = [r \in Reqs |-> [i \in 1..MaxClips |->
       IF i <= NumClips(r) THEN ProcessedClip(r, i) ELSE Null]]
  /\ order = [r \in Reqs |-> [i \in 1..NumClips(r) |-> i]]
  /\ processedClips = [r \in Reqs |-> [i \in 1..NumClips(r) |-> ProcessedClip(r, i)]]
  /\ tx = [r \in Reqs |-> <<>>]
  /\ table = {}
  /\ uploaded = [r \in Reqs |-> DiscardKeys(processedClips[r])]
  /\ store \in SUBSET (UNION {uploaded[r] : r \in Reqs})
  /\ response = [r \in Reqs |->
       [status |-> 500, clips |-> <<>>, error |-> "Failed to process upload"]]
  /\ deleteIssued = [r \in Reqs |-> {}]
  /\ sliceCall = [r \in Reqs |-> [i \in 1..MaxClips |-> <<>>]]
  /\ embedResponse = [r \in Reqs |-> NoEmbedResponse]
  /\ download = [r \in Reqs |-> NoDownload]
  /\ request = [r \in Reqs |-> NoRequest]
  /\ ffmpeg = [r \in Reqs |-> [i \in 1..MaxClips |-> NoProcess]]
  /\ purgeLog = [r \in Reqs |-> <<>>]
  /\ objectPurge = [r \in Reqs |-> NoObjectPurge]
  /\ deleteLog = <<>>
  /\ workFiles = [r \in Reqs |-> NoWorkFiles]

NextDiscard ==
  \/ \E r \in Reqs : DiscardUploadedObjects(r)
  \/ \E r \in Reqs : Cleanup(r)

SpecDiscard == InitDiscard /\ [][NextDiscard]_vars

\* ------------------------------------------------------------ embeddings

\* config.embedding.dimensions
Dimensions == 1536

\* A vector in a response of the embedding service: what it embeds and how
\* many components it has.
ServiceVector(description, length) ==
  [values |-> Vector(description), length |-> length]

\* The text the service embedded at position k: the k-th description, the
\* service keeping the order of its input; something else beyond the input.
TextAt(k) ==
  IF k <= MaxClips THEN ClipInput(k).description ELSE <<"extra", k>>

\* Responses of the embedding service: an error status, a body without an
\* embeddings array, or an array of up to MaxClips + 1 vectors of about the
\* configured dimension.
EmbedResponses ==
  {[ok |-> FALSE, hasEmbeddings |-> FALSE, embeddings |-> <<>>],
   [ok |-> TRUE, hasEmbeddings |-> FALSE, embeddings |-> <<>>]} \cup
  {[ok |-> TRUE, hasEmbeddings |-> TRUE,
    embeddings |-> [k \in 1..m |-> ServiceVector(TextAt(k), length[k])]] :
     m \in 0..MaxClips + 1,
     length \in [1..MaxClips + 1 -> {Dimensions - 1, Dimensions, Dimensions + 1}]}

EmbedThrows == [ok |-> FALSE, value |-> <<>>]

\* An embedding client that does not compare the counts.
EmbedDescriptionsUncounted(descriptions, resp) ==
  IF descriptions = <<>> THEN [ok |-> TRUE, value |-> <<>>]
  ELSE IF Len(descriptions) > MaxBatch THEN EmbedThrows
  ELSE IF ~resp.ok THEN EmbedThrows
  ELSE IF ~resp.hasEmbeddings THEN EmbedThrows
  ELSE IF \E k \in 1..Len(resp.embeddings) :
            resp.embeddings[k].length # Dimensions THEN EmbedThrows
  ELSE [ok |-> TRUE, value |-> resp.embeddings]

\* embedDescriptions, given the response of the service: the value it
\* returns, or that it throws.
EmbedDescriptions(descriptions, resp) ==
  IF descriptions = <<>> THEN [ok |-> TRUE, value |-> <<>>]
  ELSE IF Len(descriptions) > MaxBatch THEN EmbedThrows
  ELSE IF ~resp.ok THEN EmbedThrows
  ELSE IF ~resp.hasEmbeddings THEN EmbedThrows
  ELSE IF Len(resp.embeddings) # Len(descriptions) THEN EmbedThrows
  ELSE IF \E k \in 1..Len(resp.embeddings) :
            resp.embeddings[k].length # Dimensions THEN EmbedThrows
  ELSE [ok |-> TRUE, value |-> resp.embeddings]

\* The service answers every request of a behaviour with the same response.
InitEmbed ==
  /\ payload = [r \in Reqs |-> NoPayload]
  /\ animationInput = [r \in Reqs |-> "none"]
  /\ animationBuffer = [r \in Reqs |-> FALSE]
  /\ pc = [r \in Reqs |-> "idle"]
  /\ embeddingsPromise = [r \in Reqs |-> "none"]
  /\ embeddings = [r \in Reqs |-> <<>>]
  /\ workDir = [r \in Reqs |-> "none"]
  /\ existingClips = [r \in Reqs |-> {}]
  /\ task = [r \in Reqs |-> [i \in 1..MaxClips |-> "none"]]
  /\ results = [r \in Reqs |-> [i \in 1..MaxClips |-> Null]]
  /\ order = [r \in Reqs |-> <<>>]
  /\ processedClips = [r \in Reqs |-> <<>>]
  /\ tx = [r \in Reqs |-> <<>>]
  /\ table = {}
  /\ store = {}
  /\ response = [r \in Reqs |-> NoResponse]
  /\ uploaded = [r \in Reqs |-> {}]
  /\ deleteIssued = [r \in Reqs |-> {}]
  /\ sliceCall = [r \in Reqs |-> [i \in 1..MaxClips |-> <<>>]]
  /\ \E resp \in EmbedResponses : embedResponse = [r \in Reqs |-> resp]
  /\ download = [r \in Reqs |-> NoDownload]
  /\ request = [r \in Reqs |-> NoRequest]
  /\ ffmpeg = [r \in Reqs |-> [i \in 1..MaxClips |-> NoProcess]]
  /\ purgeLog = [r \in Reqs |-> <<>>]
  /\ objectPurge = [r \in Reqs |-> NoObjectPurge]
  /\ deleteLog = <<>>
  /\ workFiles = [r \in Reqs |-> NoWorkFiles]

\* The response of the embedding service arrives and embedDescriptions
\* returns or throws.  A handler waiting on the promise continues at once.
EmbedRespond(r) ==
  /\ embeddingsPromise[r] = "pending"
  /\ LET descriptions == [i \in 1..NumClips(r) |-> payload[r].clips[i].description]
         result == EmbedDescriptions(descriptions, embedResponse[r])
         e == IF result.ok THEN "ok" ELSE "fail"
     IN /\ embeddingsPromise' = [embeddingsPromise EXCEPT ![r] = e]
        /\ embeddings' = [embeddings EXCEPT ![r] = result.value]
        /\ IF pc[r] = "awaitEmbeddings"
           THEN JoinEmbeddings(r, e)
           ELSE UNCHANGED <<pc, response>>
  /\ UNCHANGED <<payload, animationInput, animationBuffer,
                 workDir, existingClips, task, results, order,
                 processedClips, tx, table, store, uploaded, deleteIssued>>
  /\ UNCHANGED <<sliceCall, embedResponse, download, request, ffmpeg, purgeLog,
                 objectPurge, deleteLog, workFiles>>

\* The handler up to the end of `await embeddingsPromise`.
NextEmbed ==
  \/ \E r \in Reqs : Start(r)
  \/ \E r \in Reqs : VideoFetch(r)
  \/ \E r \in Reqs : Mkdtemp(r)
  \/ \E r \in Reqs : VideoStream(r)
  \/ \E r \in Reqs : AnimationAcquire(r)
  \/ \E r \in Reqs : EmbedRespond(r)
  \/ \E r \in Reqs : Cleanup(r)

SpecEmbed == InitEmbed /\ [][NextEmbed]_vars

\* ------------------------------------------------------ animation slices

\* Frame ranges the schema accepts: a few short ones and the 90 frames of a
\* three-second clip at 30 fps.
FrameRanges ==
  {<<0, 1>>, <<0, 2>>, <<1, 2>>, <<2, 3>>, <<0, 90>>, <<89, 90>>}

\* One request has acquired its sources and embeddings and has just started
\* its clip tasks; its clips have any of the frame ranges.
InitSlice ==
  \E active \in Reqs, n \in 1..MaxClips, range \in [1..MaxClips -> FrameRanges],
     originId \in Origins, hasAnimation \in BOOLEAN :
    /\ payload = [r \in Reqs |->
         IF r = active
         THEN [origin_id |-> originId,
               clips |-> [i \in 1..n |->
                 [start_frame |-> range[i][1], end_frame |-> range[i][2],
                  description |-> ClipInput(i).description]]]
         ELSE NoPayload]
    /\ animationInput = [r \in Reqs |-> "none"]
    /\ animationBuffer = [r \in Reqs |-> r = active /\ hasAnimation]
    /\ pc = [r \in Reqs |-> IF r = active THEN "fanout" ELSE "idle"]
    /\ embeddingsPromise = [r \in Reqs |-> IF r = active THEN "ok" ELSE "none"]
    /\ embeddings = [r \in Reqs |->
         IF r = active THEN [i \in 1..n |-> Vector(ClipInput(i).description)]
         ELSE <<>>]
    /\ workDir = [r \in Reqs |-> IF r = active THEN "exists" ELSE "none"]
    /\ existingClips = [r \in Reqs |-> {}]
    /\ task = [r \in Reqs |-> [i \in 1..MaxClips |->
         IF r = active /\ i <= n THEN "trim" ELSE "none"]]
    /\ results = [r \in Reqs |-> [i \in 1..MaxClips |-> Null]]
    /\ order = [r \in Reqs |-> <<>>]
    /\ processedClips = [r \in Reqs |-> <<>>]
    /\ tx = [r \in Reqs |-> <<>>]
    /\ table = {}
    /\ store = {}
    /\ response = [r \in Reqs |-> NoResponse]
    /\ uploaded = [r \in Reqs |-> {}]
    /\ deleteIssued = [r \in Reqs |-> {}]
    /\ sliceCall = [r \in Reqs |-> [i \in 1..MaxClips |-> <<>>]]
    /\ embedResponse = [r \in Reqs |-> NoEmbedResponse]
    /\ download = [r \in Reqs |-> NoDownload]
    /\ request = [r \in Reqs |-> NoRequest]
    /\ ffmpeg = [r \in Reqs |-> [i \in 1..MaxClips |-> NoProcess]]
    /\ purgeLog = [r \in Reqs |-> <<>>]
    /\ objectPurge = [r \in Reqs |-> NoObjectPurge]
    /\ deleteLog = <<>>
    /\ workFiles = [r \in Reqs |-> NoWorkFiles]

\* The clip tasks, up to Promise.all settling.
NextSlice ==
  \/ \E r \in Reqs, i \in 1..MaxClips : TrimClip(r, i)
  \/ \E r \in Reqs, i \in 1..MaxClips : UploadVideo(r, i)
  \/ \E r \in Reqs, i \in 1..MaxClips : UploadAnimation(r, i)

SpecSlice == InitSlice /\ [][NextSlice]_vars

\* ------------------------------------------------------ remote downloads

\* config.video.maxDownloadSizeMB and the bytes of a megabyte (1024 * 1024).
MaxDownloadSizeMB == 500
BytesPerMB == 1048576
MaxDownloadBytes == MaxDownloadSizeMB * BytesPerMB

\* Most body the origin sends, in units of MaxDownloadBytes.
MaxBody == 2

\* Values of the content-length header: absent, the empty string, text that
\* is no number, or the digits of n.
ContentLengths ==
  {NoContentLength, [text |-> "empty", n |-> 0], [text |-> "garbage", n |-> 0]} \cup
  {[text |-> "digits", n |-> n] :
     n \in {0, MaxDownloadBytes - 1, MaxDownloadBytes, MaxDownloadBytes + 1,
            2 * MaxDownloadBytes}}

\* A size check that also refuses a file of exactly the maximum size.
TooLargeInclusive(contentLength) ==
  /\ contentLength.text \notin {"absent", "empty"}
  /\ contentLength.text = "digits"
  /\ contentLength.n >= MaxDownloadBytes

\* if (contentLength) { sizeMB = parseInt(contentLength, 10) / (1024 * 1024);
\* if (sizeMB > maxDownloadSizeMB) throw }: null and "" are falsy; parseInt
\* of text without leading digits is NaN, and NaN > x is false; dividing an
\* integer below 2^53 by 2^20 is exact, so sizeMB > maxDownloadSizeMB exactly
\* when n > maxDownloadSizeMB * 2^20.
TooLarge(contentLength) ==
  /\ contentLength.text \notin {"absent", "empty"}
  /\ contentLength.text = "digits"
  /\ contentLength.n > MaxDownloadBytes

\* A download function without the finally block.
TimerLeftArmed(timer) == timer

\* finally { clearTimeout(timeoutId) }: a timer that has not fired is
\* cancelled.
ClearTimeout(timer) == IF timer = "armed" THEN "cleared" ELSE timer

\* A download the moment fetch is called: the timer is set.
Fetching == [NoTransfer EXCEPT !.timer = "armed", !.state = "fetch"]

\* One request has arrived with a valid JSON payload with origin_url: the
\* handler has called embedDescriptions and downloadOriginVideo.  The
\* animation input "url" stands for a call of downloadAnimationBinary, the
\* input of the function itself: uploadPayloadSchema as it stands never
\* hands the handler an anim_url (see AnimationSource).
InitDownload ==
  \E active \in Reqs, anim \in {"url", "none"},
     originId \in Origins, n \in 1..MaxClips :
    /\ payload = [r \in Reqs |->
         IF r = active
         THEN [origin_id |-> originId, clips |-> [i \in 1..n |-> ClipInput(i)]]
         ELSE NoPayload]
    /\ animationInput = [r \in Reqs |-> IF r = active THEN anim ELSE "none"]
    /\ animationBuffer = [r \in Reqs |-> FALSE]
    /\ pc = [r \in Reqs |-> IF r = active THEN "fetch" ELSE "idle"]
    /\ embeddingsPromise = [r \in Reqs |-> IF r = active THEN "pending" ELSE "none"]
    /\ embeddings = [r \in Reqs |-> <<>>]
    /\ workDir = [r \in Reqs |-> "none"]
    /\ existingClips = [r \in Reqs |-> {}]
    /\ task = [r \in Reqs |-> [i \in 1..MaxClips |-> "none"]]
    /\ results = [r \in Reqs |-> [i \in 1..MaxClips |-> Null]]
    /\ order = [r \in Reqs |-> <<>>]
    /\ processedClips = [r \in Reqs |-> <<>>]
    /\ tx = [r \in Reqs |-> <<>>]
    /\ table = {}
    /\ store = {}
    /\ response = [r \in Reqs |-> NoResponse]
    /\ uploaded = [r \in Reqs |-> {}]
    /\ deleteIssued = [r \in Reqs |-> {}]
    /\ sliceCall = [r \in Reqs |-> [i \in 1..MaxClips |-> <<>>]]
    /\ embedResponse = [r \in Reqs |-> NoEmbedResponse]
    /\ download = [r \in Reqs |->
         IF r = active THEN [video |-> Fetching, animation |-> NoTransfer]
         ELSE NoDownload]
    /\ request = [r \in Reqs |-> NoRequest]
    /\ ffmpeg = [r \in Reqs |-> [i \in 1..MaxClips |-> NoProcess]]
    /\ purgeLog = [r \in Reqs |-> <<>>]
    /\ objectPurge = [r \in Reqs |-> NoObjectPurge]
    /\ deleteLog = <<>>
    /\ workFiles = [r \in Reqs |-> NoWorkFiles]

\* What the handler awaits during each download.
FetchPc(which) == IF which = "video" THEN "fetch" ELSE "animFetch"
StreamPc(which) == IF which = "video" THEN "dlStream" ELSE "animStream"

\* A download function throws: the handler answers 502, at once when the
\* video failed, after cleanupTempDir when the animation failed.
DownloadThrows(r, which) ==
  /\ pc' = [pc EXCEPT ![r] = IF which = "video" THEN "done" ELSE "cleanup"]
  /\ response' = Fail(r, 502, IF which = "video" THEN "Failed to ingest origin video"
                               ELSE "Failed to ingest origin animation")
  /\ animationInput' = [animationInput EXCEPT ![r] =
       IF which = "video" THEN @ ELSE "none"]
  /\ UNCHANGED <<animationBuffer, workDir>>

\* The variables no download step touches.
DownloadFrame ==
  UNCHANGED <<payload, embeddingsPromise, embeddings, existingClips, task,
              results, order, processedClips, tx, table, store, uploaded,
              deleteIssued, sliceCall, embedResponse, request, ffmpeg,
              purgeLog, objectPurge, deleteLog, workFiles>>

\* fetch(originUrl, { signal }) settles: it rejects or the status is not ok
\* (the function throws), or the headers arrive and the declared size is
\* checked.  An accepted video goes on to mkdtemp, an accepted animation to
\* the pipeline that streams the body into the workspace.
Headers(r, which) ==
  LET t == download[r][which] IN
  /\ pc[r] = FetchPc(which)
  /\ t.state = "fetch"
  /\ \E ok \in BOOLEAN, contentLength \in ContentLengths :
       IF ~ok
       THEN /\ download' = [download EXCEPT ![r][which] =
                 [t EXCEPT !.state = "failed", !.timer = ClearTimeout(t.timer)]]
            /\ DownloadThrows(r, which)
       ELSE IF TooLarge(contentLength)
       THEN /\ download' = [download EXCEPT ![r][which] =
                 [t EXCEPT !.state = "tooLarge", !.contentLength = contentLength,
                           !.timer = ClearTimeout(t.timer)]]
            /\ DownloadThrows(r, which)
       ELSE /\ download' = [download EXCEPT ![r][which] =
                 [t EXCEPT !.state = IF which = "video" THEN "accepted" ELSE "body",
                           !.contentLength = contentLength]]
            /\ pc' = [pc EXCEPT ![r] =
                 IF which = "video" THEN "dlMkdtemp" ELSE StreamPc(which)]
            /\ UNCHANGED <<response, animationInput, animationBuffer, workDir>>
  /\ DownloadFrame

\* mkdtemp of downloadOriginVideo returns and the pipeline starts, which
\* fails at once on a body the signal has aborted; or mkdtemp throws.
DownloadMkdtemp(r) ==
  LET t == download[r].video IN
  /\ pc[r] = "dlMkdtemp"
  /\ \E ok \in BOOLEAN :
       IF ~ok
       THEN /\ download' = [download EXCEPT ![r].video =
                 [t EXCEPT !.state = "failed", !.timer = ClearTimeout(t.timer)]]
            /\ pc' = [pc EXCEPT ![r] = "done"]
            /\ response' = Fail(r, 502, "Failed to ingest origin video")
            /\ UNCHANGED workDir
       ELSE /\ workDir' = [workDir EXCEPT ![r] = "exists"]
            /\ IF t.timer = "fired"
               THEN /\ download' = [download EXCEPT ![r].video =
                         [t EXCEPT !.state = "aborted"]]
                    /\ pc' = [pc EXCEPT ![r] = "done"]
                    /\ response' = Fail(r, 502, "Failed to ingest origin video")
               ELSE /\ download' = [download EXCEPT ![r].video =
                         [t EXCEPT !.state = "body"]]
                    /\ pc' = [pc EXCEPT ![r] = "dlStream"]
                    /\ UNCHANGED response
  /\ UNCHANGED <<animationInput, animationBuffer>>
  /\ DownloadFrame

\* The pipeline reads more of the body.
Chunk(r, which) ==
  LET t == download[r][which] IN
  /\ pc[r] = StreamPc(which)
  /\ t.state = "body"
  /\ t.bodyRead < MaxBody
  /\ download' = [download EXCEPT ![r][which] = [t EXCEPT !.bodyRead = @ + 1]]
  /\ UNCHANGED <<pc, response, animationInput, animationBuffer, workDir>>
  /\ DownloadFrame

\* The pipeline ends: the body is written (the function returns) or the
\* transfer or the write failed (it throws).  After the video the handler
\* calls downloadAnimationBinary if anim_url is given; after the animation
\* it reads the buffer; then it awaits the embeddings.
StreamEnd(r, which) ==
  LET t == download[r][which] IN
  /\ pc[r] = StreamPc(which)
  /\ t.state = "body"
  /\ \E ok \in BOOLEAN :
       IF ~ok
       THEN /\ download' = [download EXCEPT ![r][which] =
                 [t EXCEPT !.state = "failed", !.timer = ClearTimeout(t.timer)]]
            /\ DownloadThrows(r, which)
       ELSE LET ended == [t EXCEPT !.state = "complete",
                                   !.timer = ClearTimeout(t.timer)] IN
            IF which = "video" /\ animationInput[r] = "url"
            THEN /\ download' = [download EXCEPT ![r] =
                      [video |-> ended, animation |-> Fetching]]
                 /\ pc' = [pc EXCEPT ![r] = "animFetch"]
                 /\ UNCHANGED <<response, animationInput, animationBuffer, workDir>>
            ELSE /\ download' = [download EXCEPT ![r][which] = ended]
                 /\ animationBuffer' = [animationBuffer EXCEPT ![r] = which = "animation"]
                 /\ animationInput' = [animationInput EXCEPT ![r] = "none"]
                 /\ JoinEmbeddings(r, embeddingsPromise[r])
                 /\ UNCHANGED workDir
  /\ DownloadFrame

\* The download timer fires: controller.abort().  A fetch or a body in
\* flight is aborted and the function throws; while mkdtemp is awaited only
\* the signal is set; after the function has ended nothing listens.
TimerFires(r, which) ==
  LET t == download[r][which] IN
  /\ t.timer = "armed"
  /\ IF t.state \in {"fetch", "body"}
     THEN /\ download' = [download EXCEPT ![r][which] =
               [t EXCEPT !.timer = "fired", !.state = "aborted"]]
          /\ DownloadThrows(r, which)
     ELSE /\ download' = [download EXCEPT ![r][which] = [t EXCEPT !.timer = "fired"]]
          /\ UNCHANGED <<pc, response, animationInput, animationBuffer, workDir>>
  /\ DownloadFrame

Downloads == {"video", "animation"}

\* The handler from downloadOriginVideo to the end of `await
\* embeddingsPromise`, for requests that download their sources.
NextDownload ==
  \/ \E r \in Reqs, which \in Downloads : Headers(r, which)
  \/ \E r \in Reqs : DownloadMkdtemp(r)
  \/ \E r \in Reqs, which \in Downloads : Chunk(r, which)
  \/ \E r \in Reqs, which \in Downloads : StreamEnd(r, which)
  \/ \E r \in Reqs, which \in Downloads : TimerFires(r, which)
  \/ \E r \in Reqs : EmbedSettle(r)
  \/ \E r \in Reqs : Cleanup(r)

SpecDownload == InitDownload /\ [][NextDownload]_vars

\* ------------------------------------------------------ request sources

\* One request arrives, in either format, with any of the files and of the
\* optional keys; its body is valid JSON and passes validation.
InitSource ==
  \E active \in Reqs, req \in Requests :
    /\ payload = [r \in Reqs |-> NoPayload]
    /\ animationInput = [r \in Reqs |-> "none"]
    /\ animationBuffer = [r \in Reqs |-> FALSE]
    /\ pc = [r \in Reqs |-> "idle"]
    /\ embeddingsPromise = [r \in Reqs |-> "none"]
    /\ embeddings = [r \in Reqs |-> <<>>]
    /\ workDir = [r \in Reqs |-> "none"]
    /\ existingClips = [r \in Reqs |-> {}]
    /\ task = [r \in Reqs |-> [i \in 1..MaxClips |-> "none"]]
    /\ results = [r \in Reqs |-> [i \in 1..MaxClips |-> Null]]
    /\ order = [r \in Reqs |-> <<>>]
    /\ processedClips = [r \in Reqs |-> <<>>]
    /\ tx = [r \in Reqs |-> <<>>]
    /\ table = {}
    /\ store = {}
    /\ response = [r \in Reqs |-> NoResponse]
    /\ uploaded = [r \in Reqs |-> {}]
    /\ deleteIssued = [r \in Reqs |-> {}]
    /\ sliceCall = [r \in Reqs |-> [i \in 1..MaxClips |-> <<>>]]
    /\ embedResponse = [r \in Reqs |-> NoEmbedResponse]
    /\ download = [r \in Reqs |-> NoDownload]
    /\ request = [r \in Reqs |-> IF r = active THEN req ELSE NoRequest]
    /\ ffmpeg = [r \in Reqs |-> [i \in 1..MaxClips |-> NoProcess]]
    /\ purgeLog = [r \in Reqs |-> <<>>]
    /\ objectPurge = [r \in Reqs |-> NoObjectPurge]
    /\ deleteLog = <<>>
    /\ workFiles = [r \in Reqs |-> NoWorkFiles]

\* The handler from the arrival of request[r] to its first I/O operation:
\* the payload is parsed and the video source determined; without one the
\* handler answers 400 (parseMultipartPayload throws for want of the file,
\* the JSON branch returns for want of origin_url).
Arrive(r) ==
  /\ pc[r] = "idle"
  /\ request[r] # NoRequest
  /\ IF VideoSource(request[r]) = "none"
     THEN /\ pc' = [pc EXCEPT ![r] = "done"]
          /\ response' = Fail(r, 400,
               IF request[r].format = "multipart"
               THEN "Missing uploaded video file (form field video)"
               ELSE "origin_url is required when no video file is uploaded")
          /\ UNCHANGED <<payload, animationInput, embeddingsPromise>>
     ELSE /\ \E originId \in Origins, n \in 1..MaxClips :
               Accept(r, request[r], originId, n)
          /\ UNCHANGED response
  /\ UNCHANGED <<animationBuffer, embeddings, workDir, existingClips, task,
                 results, order, processedClips, tx, table, store,
                 uploaded, deleteIssued>>
  /\ UNCHANGED <<sliceCall, embedResponse, download, request, ffmpeg, purgeLog,
                 objectPurge, deleteLog, workFiles>>

\* The whole handler and its clip tasks, for the request drawn.
NextSource ==
  \/ \E r \in Reqs : Arrive(r)
  \/ \E r \in Reqs : VideoFetch(r)
  \/ \E r \in Reqs : Mkdtemp(r)
  \/ \E r \in Reqs : VideoStream(r)
  \/ \E r \in Reqs : AnimationAcquire(r)
  \/ \E r \in Reqs : EmbedSettle(r)
  \/ \E r \in Reqs : Lookup(r)
  \/ \E r \in Reqs : TxInsert(r)
  \/ \E r \in Reqs : TxCommit(r)
  \/ \E r \in Reqs : DiscardUploadedObjects(r)
  \/ \E r \in Reqs : Cleanup(r)
  \/ \E r \in Reqs, i \in 1..MaxClips : ClipTask(r, i)

SpecSource == InitSource /\ [][NextSource]_vars

\* --------------------------------------------------------------- ffmpeg

\* config.ffmpeg as far as trimClip's argument list shows it: the encoder,
\* preset and bitrate are passed on as they are.
FfmpegConfigs ==
  [gpuAcceleration : BOOLEAN, gpuSpatialAQ : BOOLEAN, gpuTemporalAQ : BOOLEAN,
   gpuRcLookahead : {0, 20}]

\* The transcode parameter of a trimClip call: absent, true or false.
TranscodeParams == {"absent", "true", "false"}

\* processClip calls trimClip with inputPath, outputPath, startSeconds and
\* endSeconds only.
ProcessClipTranscode == "absent"

\* A trimClip that re-encodes unless told not to.
TranscodeByDefault(param) == param # "false"

\* const { ..., transcode = false } = params
Transcode(param) == param = "true"

\* useGpu = config.ffmpeg.gpuAcceleration && transcode
UseGpu(transcode, config) == config.gpuAcceleration /\ transcode

\* A trimClip that adds the hardware flags whenever the GPU is enabled.
TrimClipArgsGpuFlags(transcode, config) ==
  <<"-y">>
  \o (IF config.gpuAcceleration
      THEN <<"-vsync", "0", "-hwaccel", "cuda", "-hwaccel_output_format", "cuda">>
      ELSE <<>>)
  \o <<"-ss", "startSeconds", "-to", "endSeconds", "-i", "inputPath">>
  \o (IF transcode /\ UseGpu(transcode, config)
      THEN <<"-c:v", "gpuEncoder", "-preset", "gpuPreset", "-b:v", "gpuBitrate",
             "-c:a", "copy">>
      ELSE IF transcode
      THEN <<"-c:v", "libx264", "-preset", "medium", "-crf", "23", "-c:a", "copy">>
      ELSE <<"-c", "copy">>)
  \o <<"-avoid_negative_ts", "1", "outputPath">>

\* The argument list trimClip passes to ffmpeg.
TrimClipArgs(transcode, config) ==
  LET useGpu == UseGpu(transcode, config) IN
  <<"-y">>
  \o (IF useGpu
      THEN <<"-vsync", "0", "-hwaccel", "cuda", "-hwaccel_output_format", "cuda">>
      ELSE <<>>)
  \o <<"-ss", "startSeconds", "-to", "endSeconds", "-i", "inputPath">>
  \o (IF transcode /\ useGpu
      THEN <<"-c:v", "gpuEncoder", "-preset", "gpuPreset", "-b:v", "gpuBitrate",
             "-c:a", "copy">>
           \o (IF config.gpuSpatialAQ THEN <<"-spatial-aq", "1">> ELSE <<>>)
           \o (IF config.gpuTemporalAQ THEN <<"-temporal-aq", "1">> ELSE <<>>)
           \o (IF config.gpuRcLookahead > 0
               THEN <<"-rc-lookahead", "gpuRcLookahead">> ELSE <<>>)
      ELSE IF transcode
      THEN <<"-c:v", "libx264", "-preset", "medium", "-crf", "23", "-c:a", "copy">>
      ELSE <<"-c", "copy">>)
  \o <<"-avoid_negative_ts", "1", "outputPath">>

\* The code of a 'close' event: a number, or null when a signal ended the
\* process.
ExitCode(n) == [null |-> FALSE, n |-> n]
KilledBySignal == [null |-> TRUE, n |-> 0]

\* Codes of a process that ran, and the code Node reports after a failed
\* spawn (the negated errno).
ExitCodes == {ExitCode(0), ExitCode(1), ExitCode(255), KilledBySignal}
SpawnFailed == ExitCode(-2)

ErrorEvent == [name |-> "error", code |-> SpawnFailed]
CloseEvent(code) == [name |-> "close", code |-> code]

\* A 'close' handler that takes every exit for a success.
CloseAlwaysResolves(code) == "resolved"

\* ffmpeg.on("close", (code) => code === 0 ? resolve() : reject(...))
CloseOutcome(code) ==
  IF ~code.null /\ code.n = 0 THEN "resolved" ELSE "rejected"

\* resolve() and reject() of a promise that is settled already do nothing.
Settle(promise, outcome) == IF promise = "pending" THEN outcome ELSE promise

\* One request has passed the old-record cleanup and is about to map its
\* clips to tasks.  The transcode parameter of each trimClip call and the
\* ffmpeg configuration of the process are drawn here.
InitTrim ==
  \E active \in Reqs, n \in 1..MaxClips, originId \in Origins,
     hasAnimation \in BOOLEAN, config \in FfmpegConfigs,
     transcode \in [1..MaxClips -> TranscodeParams] :
    /\ payload = [r \in Reqs |->
         IF r = active
         THEN [origin_id |-> originId, clips |-> [i \in 1..n |-> ClipInput(i)]]
         ELSE NoPayload]
    /\ animationInput = [r \in Reqs |-> "none"]
    /\ animationBuffer = [r \in Reqs |-> r = active /\ hasAnimation]
    /\ pc = [r \in Reqs |-> IF r = active THEN "map" ELSE "idle"]
    /\ embeddingsPromise = [r \in Reqs |-> IF r = active THEN "ok" ELSE "none"]
    /\ embeddings = [r \in Reqs |->
         IF r = active THEN [i \in 1..n |-> Vector(ClipInput(i).description)]
         ELSE <<>>]
    /\ workDir = [r \in Reqs |-> IF r = active THEN "exists" ELSE "none"]
    /\ existingClips = [r \in Reqs |-> {}]
    /\ task = [r \in Reqs |-> [i \in 1..MaxClips |-> "none"]]
    /\ results = [r \in Reqs |-> [i \in 1..MaxClips |-> Null]]
    /\ order = [r \in Reqs |-> <<>>]
    /\ processedClips = [r \in Reqs |-> <<>>]
    /\ tx = [r \in Reqs |-> <<>>]
    /\ table = {}
    /\ store = {}
    /\ response = [r \in Reqs |-> NoResponse]
    /\ uploaded = [r \in Reqs |-> {}]
    /\ deleteIssued = [r \in Reqs |-> {}]
    /\ sliceCall = [r \in Reqs |-> [i \in 1..MaxClips |-> <<>>]]
    /\ embedResponse = [r \in Reqs |-> NoEmbedResponse]
    /\ download = [r \in Reqs |-> NoDownload]
    /\ request = [r \in Reqs |-> NoRequest]
    /\ ffmpeg = [r \in Reqs |-> [i \in 1..MaxClips |->
         IF r = active /\ i <= n
         THEN [NoProcess EXCEPT !.transcode = transcode[i], !.config = config]
         ELSE NoProcess]]
    /\ purgeLog = [r \in Reqs |->
         IF r = active THEN <<PurgeCall("getClipsByOriginId", TRUE)>> ELSE <<>>]
    /\ objectPurge = [r \in Reqs |-> NoObjectPurge]
    /\ deleteLog = <<>>
    /\ workFiles = [r \in Reqs |-> NoWorkFiles]

\* The variables no step of an ffmpeg process touches.
TrimFrame ==
  UNCHANGED <<payload, animationInput, animationBuffer, embeddingsPromise,
              embeddings, workDir, existingClips, tx, table, store, uploaded,
              deleteIssued, sliceCall, embedResponse, download, request,
              purgeLog, objectPurge, deleteLog, workFiles>>

\* payload.clips.map runs the callback of clip i up to `await trimClip`: the
\* argument list is built and ffmpeg is spawned.  The callbacks run one after
\* the other, in input order, before anything else; after the last one the
\* handler awaits Promise.all.
TrimClipCall(r, i) ==
  LET p == ffmpeg[r][i] IN
  /\ pc[r] = "map"
  /\ i <= NumClips(r)
  /\ p.promise = "none"
  /\ \A j \in 1..(i - 1) : ffmpeg[r][j].promise # "none"
  /\ ffmpeg' = [ffmpeg EXCEPT ![r][i] =
       [p EXCEPT !.args = TrimClipArgs(Transcode(p.transcode), p.config),
                 !.promise = "pending"]]
  /\ task' = [task EXCEPT ![r][i] = "trim"]
  /\ pc' = [pc EXCEPT ![r] = IF i = NumClips(r) THEN "fanout" ELSE "map"]
  /\ UNCHANGED <<response, results, order, processedClips>>
  /\ TrimFrame

\* The task after an event of its ffmpeg process, the promise of trimClip
\* having been `before`: when the event settled the promise, processClip
\* continues (it issues the video upload, which cannot read the file once the
\* workspace is removed) or throws; otherwise nothing happens.
AfterTrim(r, i, before, after) ==
  IF before # "pending" THEN UNCHANGED <<task, pc, response, results, order, processedClips>>
  ELSE IF after = "resolved" /\ workDir[r] = "exists"
  THEN TaskAdvance(r, i, "uploadVideo")
  ELSE TaskReject(r, i)

\* ffmpeg.on("error"): the process could not be spawned.
FfmpegError(r, i) ==
  LET p == ffmpeg[r][i]
      after == Settle(p.promise, "rejected")
  IN /\ pc[r] # "map"
     /\ p.promise # "none"
     /\ p.events = <<>>
     /\ ffmpeg' = [ffmpeg EXCEPT ![r][i] =
          [p EXCEPT !.events = Append(@, ErrorEvent), !.promise = after]]
     /\ AfterTrim(r, i, p.promise, after)
     /\ TrimFrame

\* ffmpeg.on("close"): the process has ended and its streams are closed;
\* after a failed spawn the event carries the spawn's error code.
FfmpegClose(r, i) ==
  LET p == ffmpeg[r][i] IN
  /\ pc[r] # "map"
  /\ p.promise # "none"
  /\ \A k \in 1..Len(p.events) : p.events[k].name # "close"
  /\ \E code \in IF p.events = <<>> THEN ExitCodes ELSE {SpawnFailed} :
       LET after == Settle(p.promise, CloseOutcome(code)) IN
       /\ ffmpeg' = [ffmpeg EXCEPT ![r][i] =
            [p EXCEPT !.events = Append(@, CloseEvent(code)), !.promise = after]]
       /\ AfterTrim(r, i, p.promise, after)
  /\ TrimFrame

\* The clip tasks from the trimClip call on, and the end of a failed request.
NextTrim ==
  \/ \E r \in Reqs, i \in 1..MaxClips : TrimClipCall(r, i)
  \/ \E r \in Reqs, i \in 1..MaxClips : FfmpegError(r, i)
  \/ \E r \in Reqs, i \in 1..MaxClips : FfmpegClose(r, i)
  \/ \E r \in Reqs, i \in 1..MaxClips : UploadVideo(r, i)
  \/ \E r \in Reqs, i \in 1..MaxClips : UploadAnimation(r, i)
  \/ \E r \in Reqs : Cleanup(r)

SpecTrim == InitTrim /\ [][NextTrim]_vars

\* --------------------------------------------------------- object store

\* "max-keys": 1000, scaled down: the objects one page of store.list holds.
PageSize == 2
\* The objects an earlier ingestion left per prefix, at most.
MaxObjects == 3
\* The uploads of other requests that land while the cleanup runs, at most.
MaxPuts == 1

\* An origin_id, and one that continues it after a '/': uploadPayloadSchema
\* accepts every non-empty string.
Outer == <<"X">>
Nested == <<"X", "Y">>

\* The object names of the bucket in the order in which the store lists them
\* (by name): under each kind the objects of Outer, then those of Nested.
NamesOf(kind, ext) ==
  [k \in 1..MaxObjects |-> <<kind>> \o Outer \o << <<AssetId(k, 1), ext>> >>]
    \o << <<kind>> \o Nested \o << <<AssetId(1, 1), ext>> >> >>
ObjectNames == NamesOf("animations", "bin") \o NamesOf("clips", "mp4")

\* The place of a name in the listing order; the undefined marker comes
\* before every name.
Position(name) ==
  IF name = NoMarker THEN 0
  ELSE CHOOSE k \in 1..Len(ObjectNames) : ObjectNames[k] = name

Smallest(S) == CHOOSE x \in S : \A y \in S : x <= y
RECURSIVE FirstN(_, _)
FirstN(S, n) ==
  IF n = 0 \/ S = {} THEN <<>>
  ELSE <<ObjectNames[Smallest(S)]>> \o FirstN(S \ {Smallest(S)}, n - 1)

\* The places of the stored objects that start with the prefix and come after
\* the marker.
Listed(keys, prefix, marker) ==
  {k \in 1..Len(ObjectNames) :
     /\ ObjectNames[k] \in keys
     /\ IsPrefix(prefix, Dir(ObjectNames[k]))
     /\ k > Position(marker)}

\* store.list({ prefix, "max-keys", marker }): the first page of the objects
\* after the marker, and nextMarker, the last name of a truncated page.
StoreList(keys, prefix, marker) ==
  LET all == Listed(keys, prefix, marker)
      objects == FirstN(all, PageSize)
  IN [objects |-> objects,
      nextMarker |-> IF Cardinality(all) > PageSize
                     THEN objects[Len(objects)] ELSE NoMarker]

\* const prefixes = [`clips/${originId}/`, `animations/${originId}/`]
Prefixes(originId) == << <<"clips">> \o originId, <<"animations">> \o originId >>

\* A cleanup that lists each prefix once: continuationToken is never followed.
NextPageNever(p) ==
  IF p.prefix < 2
  THEN [p EXCEPT !.state = "list", !.prefix = @ + 1,
                 !.continuationToken = NoMarker,
                 !.objects = <<>>, !.nextMarker = NoMarker]
  ELSE [p EXCEPT !.state = "returned", !.objects = <<>>,
                 !.continuationToken = NoMarker, !.nextMarker = NoMarker]

\* continuationToken = result.nextMarker; while (continuationToken); then the
\* next prefix, then return deletedKeys.
NextPage(p) ==
  IF p.nextMarker # NoMarker
  THEN [p EXCEPT !.state = "list", !.continuationToken = p.nextMarker,
                 !.objects = <<>>, !.nextMarker = NoMarker]
  ELSE IF p.prefix < 2
  THEN [p EXCEPT !.state = "list", !.prefix = @ + 1,
                 !.continuationToken = NoMarker,
                 !.objects = <<>>, !.nextMarker = NoMarker]
  ELSE [p EXCEPT !.state = "returned", !.objects = <<>>,
                 !.continuationToken = NoMarker, !.nextMarker = NoMarker]

\* The variables no step of deleteObjectsByOriginId or deleteObject touches.
StoreFrame ==
  UNCHANGED <<payload, animationInput, animationBuffer, pc, embeddingsPromise,
              embeddings, workDir, existingClips, task, results, order,
              processedClips, tx, table, response, uploaded, deleteIssued,
              sliceCall, embedResponse, download, request, ffmpeg, purgeLog,
              workFiles>>

\* A request whose lookup found rows has called deleteObjectsByOriginId; the
\* bucket holds any of the objects earlier ingestions left.
InitPurge ==
  \E active \in Reqs, originId \in {Outer, Nested} :
    /\ payload = [r \in Reqs |-> IF r = active
         THEN [origin_id |-> originId, clips |-> <<ClipInput(1)>>]
         ELSE NoPayload]
    /\ animationInput = [r \in Reqs |-> "none"]
    /\ animationBuffer = [r \in Reqs |-> FALSE]
    /\ pc = [r \in Reqs |-> IF r = active THEN "purgeClips" ELSE "idle"]
    /\ embeddingsPromise = [r \in Reqs |-> IF r = active THEN "ok" ELSE "none"]
    /\ embeddings = [r \in Reqs |-> IF r = active
         THEN <<Vector(ClipInput(1).description)>> ELSE <<>>]
    /\ workDir = [r \in Reqs |-> IF r = active THEN "exists" ELSE "none"]
    /\ existingClips = [r \in Reqs |-> {}]
    /\ task = [r \in Reqs |-> [i \in 1..MaxClips |-> "none"]]
    /\ results = [r \in Reqs |-> [i \in 1..MaxClips |-> Null]]
    /\ order = [r \in Reqs |-> <<>>]
    /\ processedClips = [r \in Reqs |-> <<>>]
    /\ tx = [r \in Reqs |-> <<>>]
    /\ table = {}
    /\ store \in SUBSET Range(ObjectNames)
    /\ response = [r \in Reqs |-> NoResponse]
    /\ uploaded = [r \in Reqs |-> {}]
    /\ deleteIssued = [r \in Reqs |-> {}]
    /\ sliceCall = [r \in Reqs |-> [i \in 1..MaxClips |-> <<>>]]
    /\ embedResponse = [r \in Reqs |-> NoEmbedResponse]
    /\ download = [r \in Reqs |-> NoDownload]
    /\ request = [r \in Reqs |-> NoRequest]
    /\ ffmpeg = [r \in Reqs |-> [i \in 1..MaxClips |-> NoProcess]]
    /\ purgeLog = [r \in Reqs |->
         IF r = active THEN <<PurgeCall("getClipsByOriginId", TRUE)>> ELSE <<>>]
    /\ objectPurge = [r \in Reqs |-> IF r = active
         THEN [NoObjectPurge EXCEPT !.state = "list", !.prefix = 1]
         ELSE NoObjectPurge]
    /\ deleteLog = <<>>
    /\ workFiles = [r \in Reqs |-> NoWorkFiles]

\* await store.list(...) settles: it throws, or it returns a page; an empty
\* page is followed by the loop test at once, a non-empty one by deleteMulti.
ListPage(r) ==
  LET p == objectPurge[r] IN
  /\ p.state = "list"
  /\ \E ok \in BOOLEAN :
       objectPurge' = [objectPurge EXCEPT ![r] =
         IF ~ok THEN [p EXCEPT !.state = "threw"]
         ELSE LET result == StoreList(store, Prefixes(payload[r].origin_id)[p.prefix],
                                      p.continuationToken)
                  q == [p EXCEPT !.objects = result.objects,
                                 !.nextMarker = result.nextMarker]
              IN IF Len(result.objects) > 0 THEN [q EXCEPT !.state = "delete"]
                 ELSE NextPage(q)]
  /\ UNCHANGED <<store, deleteLog>>
  /\ StoreFrame

\* await store.deleteMulti(keys, { quiet: true }) settles: it throws, or the
\* keys are gone and are pushed to deletedKeys; then the loop test.
DeleteMulti(r) ==
  LET p == objectPurge[r] IN
  /\ p.state = "delete"
  /\ \E ok \in BOOLEAN :
       IF ok
       THEN /\ store' = store \ Range(p.objects)
            /\ objectPurge' = [objectPurge EXCEPT ![r] =
                 NextPage([p EXCEPT !.deletedKeys = @ \o p.objects])]
       ELSE /\ objectPurge' = [objectPurge EXCEPT ![r] = [p EXCEPT !.state = "threw"]]
            /\ UNCHANGED store
  /\ UNCHANGED deleteLog
  /\ StoreFrame

\* A clip task of another request uploads an object while the cleanup runs.
ConcurrentPut(r) ==
  LET p == objectPurge[r] IN
  /\ p.state \in {"list", "delete"}
  /\ p.concurrentPuts < MaxPuts
  /\ \E name \in Range(ObjectNames) \ store : store' = store \cup {name}
  /\ objectPurge' = [objectPurge EXCEPT ![r].concurrentPuts = @ + 1]
  /\ UNCHANGED deleteLog
  /\ StoreFrame

NextPurge ==
  \/ \E r \in Reqs : ListPage(r)
  \/ \E r \in Reqs : DeleteMulti(r)
  \/ \E r \in Reqs : ConcurrentPut(r)

\* The store answers every call: a call of the cleanup that is outstanding
\* settles.
SpecPurge ==
  /\ InitPurge
  /\ [][NextPurge]_vars
  /\ \A r \in Reqs : WF_vars(ListPage(r)) /\ WF_vars(DeleteMulti(r))

\* deleteObject calls per run of the model, at most.
MaxDeletes == 3

\* What store.delete answers: 204 when the object is deleted or was not
\* there, or an error that carries the status code of the response: 404, or
\* another one (403, 500), or none at all (0: a network error or timeout has
\* no statusCode).
Deleted == 204
NotFound == 404
ErrorStatusCodes == {0, 403, 404, 500}
StatusCodes == {Deleted} \cup ErrorStatusCodes

\* A deleteObject that surfaces every error of the store.
DeleteObjectStrict(statusCode) ==
  IF statusCode \in ErrorStatusCodes THEN "rejected" ELSE "resolved"

\* deleteObject: try { await store.delete(objectKey) } catch: rethrow unless
\* error.statusCode is 404.
DeleteObjectOutcome(statusCode) ==
  IF statusCode \in ErrorStatusCodes /\ statusCode # NotFound
  THEN "rejected" ELSE "resolved"

\* The bucket holds any of the video objects.
InitDelete ==
  /\ payload = [r \in Reqs |-> NoPayload]
  /\ animationInput = [r \in Reqs |-> "none"]
  /\ animationBuffer = [r \in Reqs |-> FALSE]
  /\ pc = [r \in Reqs |-> "idle"]
  /\ embeddingsPromise = [r \in Reqs |-> "none"]
  /\ embeddings = [r \in Reqs |-> <<>>]
  /\ workDir = [r \in Reqs |-> "none"]
  /\ existingClips = [r \in Reqs |-> {}]
  /\ task = [r \in Reqs |-> [i \in 1..MaxClips |-> "none"]]
  /\ results = [r \in Reqs |-> [i \in 1..MaxClips |-> Null]]
  /\ order = [r \in Reqs |-> <<>>]
  /\ processedClips = [r \in Reqs |-> <<>>]
  /\ tx = [r \in Reqs |-> <<>>]
  /\ table = {}
  /\ store \in SUBSET Range(NamesOf("clips", "mp4"))
  /\ response = [r \in Reqs |-> NoResponse]
  /\ uploaded = [r \in Reqs |-> {}]
  /\ deleteIssued = [r \in Reqs |-> {}]
  /\ sliceCall = [r \in Reqs |-> [i \in 1..MaxClips |-> <<>>]]
  /\ embedResponse = [r \in Reqs |-> NoEmbedResponse]
  /\ download = [r \in Reqs |-> NoDownload]
  /\ request = [r \in Reqs |-> NoRequest]
  /\ ffmpeg = [r \in Reqs |-> [i \in 1..MaxClips |-> NoProcess]]
  /\ purgeLog = [r \in Reqs |-> <<>>]
  /\ objectPurge = [r \in Reqs |-> NoObjectPurge]
  /\ deleteLog = <<>>
  /\ workFiles = [r \in Reqs |-> NoWorkFiles]

\* deleteObject(objectKey) settles.  The store deletes the object and answers
\* 204 (also when there was none), or it answers with an error and deletes
\* nothing; it answers 404 only for an object that is not there.
DeleteObject(objectKey) ==
  /\ Len(deleteLog) < MaxDeletes
  /\ \E statusCode \in StatusCodes :
       /\ statusCode = NotFound => objectKey \notin store
       /\ store' = IF statusCode = Deleted THEN store \ {objectKey} ELSE store
       /\ deleteLog' = Append(deleteLog,
            [key |-> objectKey, existed |-> objectKey \in store,
             statusCode |-> statusCode,
             outcome |-> DeleteObjectOutcome(statusCode)])
  /\ UNCHANGED objectPurge
  /\ StoreFrame

NextDelete == \E objectKey \in Range(NamesOf("clips", "mp4")) : DeleteObject(objectKey)

SpecDelete == InitDelete /\ [][NextDelete]_vars

\* ------------------------------------------------------ workspace files

\* The names a client gives an uploaded file and the paths of a source URL,
\* as their '/'-separated segments: none, blank, plain, in a directory.
ClientNames ==
  {<<>>, <<" ">>, <<"clip.mp4">>, <<"up", "clip.mp4">>, <<"rig.bin">>,
   <<"origin.mp4">>, <<"origin.bin">>}

\* path.basename(name)
Basename(name) == IF name = <<>> THEN "" ELSE name[Len(name)]

\* !file.name?.trim(): the name is empty or white space.
Blank(name) == name \in {<<>>, <<" ">>}

\* path.basename(new URL(originUrl).pathname) || "origin.mp4"
DownloadName(pathname) ==
  IF Basename(pathname) # "" THEN Basename(pathname) ELSE "origin.mp4"

\* writeUploadedAsset: file.name?.trim() ? path.basename(file.name) :
\* fallbackName, and fallbackName again when that is empty.
UploadedName(name, fallbackName) ==
  LET fileName == IF ~Blank(name) THEN Basename(name) ELSE fallbackName
  IN IF fileName # "" THEN fileName ELSE fallbackName

\* stageUploadedVideo: fallbackName "origin.mp4".
VideoName(source, name) ==
  IF source = "file" THEN UploadedName(name, "origin.mp4") ELSE DownloadName(name)

\* stageUploadedBinary with fallbackName: animationFile.name || "origin.bin"
\* (the raw name is used for a blank name only, which has one segment).
AnimationName(name) ==
  UploadedName(name, IF name # <<>> THEN name[1] ELSE "origin.bin")

\* createWriteStream(filePath) and pipeline: the file is created or
\* overwritten.
WriteFile(files, filePath, content) ==
  [name \in DOMAIN files \cup {filePath} |->
     IF name = filePath THEN content ELSE files[name]]

\* The variables no step on the workspace files touches.
StageFrame ==
  UNCHANGED <<payload, animationInput, embeddingsPromise, embeddings,
              existingClips, tx, table, store, uploaded, deleteIssued,
              sliceCall, embedResponse, download, request, ffmpeg, purgeLog,
              objectPurge, deleteLog>>

\* One valid request has arrived: a multipart form with a video file and
\* possibly an animation file, or a JSON body with origin_url; the names are
\* the client's.
InitStage ==
  \E active \in Reqs, n \in 1..MaxClips, source \in {"file", "url"},
     videoName \in ClientNames, animationName \in ClientNames,
     animation \in {"file", "none"} :
    /\ source = "url" => animation = "none"
    /\ animation = "none" => animationName = <<>>
    /\ payload = [r \in Reqs |-> IF r = active
         THEN [origin_id |-> <<"X">>, clips |-> [i \in 1..n |-> ClipInput(i)]]
         ELSE NoPayload]
    /\ animationInput = [r \in Reqs |-> IF r = active THEN animation ELSE "none"]
    /\ animationBuffer = [r \in Reqs |-> FALSE]
    /\ pc = [r \in Reqs |-> IF r = active THEN "stageVideo" ELSE "idle"]
    /\ embeddingsPromise = [r \in Reqs |-> IF r = active THEN "ok" ELSE "none"]
    /\ embeddings = [r \in Reqs |-> IF r = active
         THEN [i \in 1..n |-> Vector(ClipInput(i).description)] ELSE <<>>]
    /\ workDir = [r \in Reqs |-> "none"]
    /\ existingClips = [r \in Reqs |-> {}]
    /\ task = [r \in Reqs |-> [i \in 1..MaxClips |-> "none"]]
    /\ results = [r \in Reqs |-> [i \in 1..MaxClips |-> Null]]
    /\ order = [r \in Reqs |-> <<>>]
    /\ processedClips = [r \in Reqs |-> <<>>]
    /\ tx = [r \in Reqs |-> <<>>]
    /\ table = {}
    /\ store = {}
    /\ response = [r \in Reqs |-> NoResponse]
    /\ uploaded = [r \in Reqs |-> {}]
    /\ deleteIssued = [r \in Reqs |-> {}]
    /\ sliceCall = [r \in Reqs |-> [i \in 1..MaxClips |-> <<>>]]
    /\ embedResponse = [r \in Reqs |-> NoEmbedResponse]
    /\ download = [r \in Reqs |-> NoDownload]
    /\ request = [r \in Reqs |-> IF r = active
         THEN [format |-> IF source = "file" THEN "multipart" ELSE "json",
               files |-> IF source = "url" THEN {}
                         ELSE IF animation = "file" THEN {"video", "animation"}
                         ELSE {"video"},
               keys |-> IF source = "url" THEN {"origin_url"} ELSE {},
               videoName |-> videoName, animationName |-> animationName]
         ELSE NoRequest]
    /\ ffmpeg = [r \in Reqs |-> [i \in 1..MaxClips |-> NoProcess]]
    /\ purgeLog = [r \in Reqs |-> <<>>]
    /\ objectPurge = [r \in Reqs |-> NoObjectPurge]
    /\ deleteLog = <<>>
    /\ workFiles = [r \in Reqs |-> NoWorkFiles]

\* The clip tasks start (the steps between staging and the fan-out touch no
\* file of the workspace).
StartTasks(r) ==
  /\ task' = [task EXCEPT ![r] = [i \in 1..MaxClips |->
       IF i <= NumClips(r) THEN "trim" ELSE "none"]]
  /\ pc' = [pc EXCEPT ![r] = "fanout"]

\* stageUploadedVideo / downloadOriginVideo: mkdtemp, then the video is
\* written to path.join(tempDir, fileName).
StageVideo(r) ==
  LET source == IF "video" \in request[r].files THEN "file" ELSE "url"
      filePath == VideoName(source, request[r].videoName)
  IN /\ pc[r] = "stageVideo"
     /\ workDir' = [workDir EXCEPT ![r] = "exists"]
     /\ workFiles' = [workFiles EXCEPT ![r] =
          [@ EXCEPT !.videoSourcePath = filePath,
                    !.named = WriteFile(@, filePath, "video")]]
     /\ IF animationInput[r] = "file"
        THEN /\ pc' = [pc EXCEPT ![r] = "stageAnimation"]
             /\ UNCHANGED task
        ELSE StartTasks(r)
     /\ UNCHANGED <<animationBuffer, response, results, order, processedClips>>
     /\ StageFrame

\* stageUploadedBinary({ file: animationFile, tempDir: workDir, ... }) and
\* readFile: the animation is written into the same directory.
StageAnimation(r) ==
  LET filePath == AnimationName(request[r].animationName) IN
  /\ pc[r] = "stageAnimation"
  /\ workFiles' = [workFiles EXCEPT ![r] =
       [@ EXCEPT !.animationPath = filePath,
                 !.named = WriteFile(@, filePath, "animation")]]
  /\ animationBuffer' = [animationBuffer EXCEPT ![r] = TRUE]
  /\ StartTasks(r)
  /\ UNCHANGED <<workDir, response, results, order, processedClips>>
  /\ StageFrame

\* trimClip({ inputPath: videoSourcePath, outputPath: `${assetId}.mp4` }):
\* ffmpeg reads the staged source; it writes the clip when the source is the
\* video, and exits non-zero when the file at that path is not a video.
TrimToFile(r, i) ==
  LET files == workFiles[r] IN
  /\ task[r][i] = "trim"
  /\ IF files.named[files.videoSourcePath] = "video"
     THEN /\ workFiles' = [workFiles EXCEPT ![r].temp = @ \cup {<<AssetId(r, i), "mp4">>}]
          /\ TaskAdvance(r, i, "uploadVideo")
     ELSE /\ UNCHANGED workFiles
          /\ TaskReject(r, i)
  /\ UNCHANGED <<animationBuffer, workDir>>
  /\ StageFrame

\* After the video upload: deleteFile(trimmedVideoPath) and, with an
\* animation buffer, writeFile(`${assetId}.bin`).
WriteSlice(r, i) ==
  /\ task[r][i] = "uploadVideo"
  /\ workFiles' = [workFiles EXCEPT ![r].temp =
       (@ \ {<<AssetId(r, i), "mp4">>}) \cup
       (IF HasAnimation(r) THEN {<<AssetId(r, i), "bin">>} ELSE {})]
  /\ TaskAdvance(r, i, IF HasAnimation(r) THEN "uploadAnimation" ELSE "done")
  /\ UNCHANGED <<animationBuffer, workDir>>
  /\ StageFrame

\* After the animation upload: deleteFile(animationPath).
DeleteSlice(r, i) ==
  /\ task[r][i] = "uploadAnimation"
  /\ workFiles' = [workFiles EXCEPT ![r].temp = @ \ {<<AssetId(r, i), "bin">>}]
  /\ TaskAdvance(r, i, "done")
  /\ UNCHANGED <<animationBuffer, workDir>>
  /\ StageFrame

NextStage ==
  \/ \E r \in Reqs : StageVideo(r)
  \/ \E r \in Reqs : StageAnimation(r)
  \/ \E r \in Reqs, i \in 1..MaxClips : TrimToFile(r, i)
  \/ \E r \in Reqs, i \in 1..MaxClips : WriteSlice(r, i)
  \/ \E r \in Reqs, i \in 1..MaxClips : DeleteSlice(r, i)

SpecStage == InitStage /\ [][NextStage]_vars

\* ---------------------------------------------------------------- claims

TasksSettled(r) == \A i \in 1..MaxClips : task[r][i] \in {"none", "done", "failed"}
TasksStarted(r) == \E i \in 1..MaxClips : task[r][i] # "none"
SomeTaskFailed(r) == \E i \in 1..MaxClips : task[r][i] = "failed"

\* The handler called persistClips and it threw.
PersistFailed(r) ==
  /\ pc[r] \in {"cleanup", "done"}
  /\ Len(processedClips[r]) > 0
  /\ response[r].status # 200

\* The object keys a set of rows refers to.
ObjectKeysOfRows(rows) ==
  {row.video_url.url : row \in rows} \cup
  {row.animation_url.url : row \in {x \in rows : x.animation_url # NoUrl}}

\* C1: whenever a clip task of a request has failed, then once the request
\* has answered and all its tasks have ended, no row of the request is in
\* the table and no object its tasks uploaded is left in the store.
C1_TaskFailureRollsBack ==
  \A r \in Reqs :
    (pc[r] = "done" /\ TasksSettled(r) /\ SomeTaskFailed(r)) =>
      /\ RowsOfRequest(table, r) = {}
      /\ uploaded[r] \cap store = {}

\* C2: when the handler has returned its response, the workspace directory
\* of the request does not exist.
C2_NoWorkspaceAfterResponse ==
  \A r \in Reqs : pc[r] = "done" => workDir[r] # "exists"

\* C3: the committed rows of one origin_id all come from a single request.
C3_RowsOfOneRequestPerOrigin ==
  \A a \in table, b \in table :
    a.origin_id = b.origin_id => a.id[1] = b.id[1]

\* C4: with requests run one at a time, when a request returns 200 the rows
\* of its origin_id are exactly its N rows, and the objects under
\* clips/{origin_id}/ and animations/{origin_id}/ are exactly the objects it
\* uploaded.
C4_ReplaceLeavesOnlyNewArtifacts ==
  [][\A r \in Reqs :
       (pc[r] = "cleanup" /\ pc'[r] = "done" /\ response[r].status = 200) =>
         LET originId == payload[r].origin_id IN
         /\ RowsOfOrigin(table', originId) = Range(response[r].clips)
         /\ Cardinality(RowsOfOrigin(table', originId)) = NumClips(r)
         /\ ListObjects(store', "clips", originId) \cup
            ListObjects(store', "animations", originId) = uploaded[r]]_vars

\* C5: if every clip task succeeded and persistClips threw, a delete has been
\* issued for every object key the request uploaded, no row of the request
\* is in the table, and the status is 500.
C5_PersistFailureRollsBack ==
  \A r \in Reqs :
    PersistFailed(r) =>
      /\ response[r].status = 500
      /\ response[r].clips = <<>>
      /\ uploaded[r] = DiscardKeys(processedClips[r])
      /\ uploaded[r] \subseteq deleteIssued[r]
      /\ RowsOfRequest(table, r) = {}

C5_Witness ==
  \E r \in Reqs :
    /\ PersistFailed(r)
    /\ pc[r] = "done"
    /\ HasAnimation(r)
    /\ NumClips(r) = MaxClips

\* C6: the table never holds some but not all rows of a persistClips call:
\* the rows of a request in the table are none, or all N of a committed
\* transaction; after persistClips threw they are none.
C6_PersistAllOrNothing ==
  \A r \in Reqs :
    /\ \/ RowsOfRequest(table, r) = {}
       \/ /\ RowsOfRequest(table, r) = Range(tx[r])
          /\ Cardinality(RowsOfRequest(table, r)) = NumClips(r)
          /\ response[r].status = 200
    /\ (pc[r] = "discard" \/ PersistFailed(r)) => RowsOfRequest(table, r) = {}

\* A transaction that threw after at least one INSERT had returned cannot be
\* told from the state afterwards; an open one with some of its rows can.
C6_Witness ==
  \E r \in Reqs :
    /\ pc[r] = "persist"
    /\ Len(tx[r]) >= 1
    /\ Len(tx[r]) < NumClips(r)
    /\ RowsOfRequest(table, r) = {}

\* C7: a returned response is either 200 with one inserted row per clip of
\* the request, every clip task having succeeded and the transaction having
\* committed, or an error status with no clips.
C7_NoPartialSuccess ==
  \A r \in Reqs :
    pc[r] = "done" =>
      \/ /\ response[r].status = 200
         /\ Len(response[r].clips) = NumClips(r)
         /\ AllFulfilled(task[r], NumClips(r))
         /\ response[r].clips = tx[r]
         /\ \A k \in 1..NumClips(r) : response[r].clips[k].id = <<r, k>>
      \/ /\ response[r].status \in {400, 500, 502}
         /\ response[r].clips = <<>>

C7_Witness ==
  \E r \in Reqs :
    /\ pc[r] = "done"
    /\ response[r].status = 200
    /\ NumClips(r) = MaxClips

\* C8: in a 200 response the i-th clip, which is the i-th row inserted,
\* carries the frames and the description of the i-th clip of the request.
C8_OutputOrderIsInputOrder ==
  \A r \in Reqs :
    response[r].status = 200 =>
      \A i \in 1..NumClips(r) :
        /\ response[r].clips[i].id = <<r, i>>
        /\ response[r].clips[i].start_frame = payload[r].clips[i].start_frame
        /\ response[r].clips[i].end_frame = payload[r].clips[i].end_frame
        /\ response[r].clips[i].description = payload[r].clips[i].description

\* A success whose tasks completed in the reverse of the input order.
C8_Witness ==
  \E r \in Reqs :
    /\ response[r].status = 200
    /\ NumClips(r) >= 2
    /\ order[r][1] > order[r][2]

\* C9: once a clip task of a request has started or a row of it has been
\* inserted, the rows its lookup found are no longer in the table and their
\* objects are no longer in the store.
C9_PurgeBeforeFanOut ==
  \A r \in Reqs :
    (TasksStarted(r) \/ tx[r] # <<>> \/ RowsOfRequest(table, r) # {}) =>
      /\ pc[r] \notin {"lookup", "purgeClips", "purgeAnimations", "deleteRows"}
      /\ existingClips[r] \cap table = {}
      /\ ObjectKeysOfRows(existingClips[r]) \cap store = {}

C9_Witness ==
  \E r \in Reqs :
    /\ existingClips[r] # {}
    /\ RowsOfRequest(table, r) # {}

\* C10: the embedding request is outstanding or settled while the source is
\* being acquired, and a clip task exists only after the video and the
\* animation were acquired and the embedding promise was fulfilled.
C10_EmbeddingsJoinedBeforeFanOut ==
  \A r \in Reqs :
    /\ pc[r] \in {"fetch", "mkdtemp", "stream", "animation"} =>
         embeddingsPromise[r] \in {"pending", "ok", "fail"}
    /\ TasksStarted(r) =>
         /\ embeddingsPromise[r] = "ok"
         /\ Len(embeddings[r]) = NumClips(r)
         /\ workDir[r] # "none"
         /\ animationInput[r] = "none"

\* The clip tasks of a request with an animation run, the embeddings joined.
C10_Witness ==
  \E r \in Reqs :
    /\ pc[r] = "fanout"
    /\ embeddingsPromise[r] = "ok"
    /\ animationBuffer[r]

\* The step is one of request r: its handler, its embedding request or one
\* of its clip tasks moves.
StepOf(r) ==
  \/ pc'[r] # pc[r]
  \/ embeddingsPromise'[r] # embeddingsPromise[r]
  \/ task'[r] # task[r]
  \/ tx'[r] # tx[r]

\* The request ended in the validation, acquisition or embedding phase.
FailedBeforePurge(r) == response[r].status \in {400, 502}

\* C11: a request changes the table or the store only after its video and
\* animation were acquired and its embedding request succeeded, hence never
\* on the way to a 400 or 502; a request that answered 400 or 502 found,
\* uploaded, deleted and inserted nothing.
C11_PurgeOnlyAfterAcquisition ==
  /\ [](\A r \in Reqs :
         FailedBeforePurge(r) =>
           /\ existingClips[r] = {}
           /\ ~TasksStarted(r)
           /\ tx[r] = <<>>
           /\ uploaded[r] = {}
           /\ deleteIssued[r] = {}
           /\ RowsOfRequest(table, r) = {})
  /\ [][\A r \in Reqs :
         (StepOf(r) /\ (table' # table \/ store' # store)) =>
           /\ embeddingsPromise[r] = "ok"
           /\ animationInput[r] = "none"
           /\ workDir[r] # "none"
           /\ ~FailedBeforePurge(r)
           /\ response'[r].status \notin {400, 502}]_vars

\* A request has answered 502 while rows and objects of its origin_id exist.
C11_Witness ==
  \E r \in Reqs :
    /\ pc[r] = "done"
    /\ response[r].status = 502
    /\ RowsOfOrigin(table, payload[r].origin_id) # {}
    /\ ListObjects(store, "clips", payload[r].origin_id) # {}

\* The operations the handler awaits in each phase of a request.
ParsePhase == {"idle"}
AcquirePhase == {"fetch", "mkdtemp", "stream", "animation", "awaitEmbeddings"}
ProcessPhase == {"lookup", "purgeClips", "purgeAnimations", "deleteRows",
                 "fanout", "persist"}

\* C12: the handler computes its response once, and the status is fixed by
\* the phase it was in: 400 while parsing, 502 while acquiring the video or
\* the animation or awaiting the embeddings, 500 or 200 during old-record
\* cleanup, clip processing and persistence, and 200 exactly when the
\* transaction of all clips commits.
C12_StatusByPhase ==
  [][\A r \in Reqs :
       /\ response[r].status # 0 => response'[r] = response[r]
       /\ response'[r] # response[r] =>
            LET status == response'[r].status IN
            /\ status \in {200, 400, 500, 502}
            /\ status = 400 <=> pc[r] \in ParsePhase
            /\ status = 502 <=> pc[r] \in AcquirePhase
            /\ status \in {200, 500} <=> pc[r] \in ProcessPhase
            /\ status = 200 <=>
                 /\ pc[r] = "persist"
                 /\ AllFulfilled(task[r], NumClips(r))
                 /\ Len(tx[r]) = NumClips(r)
                 /\ Range(tx[r]) \subseteq table'
                 /\ table' # table]_vars

\* A request answered 500 because the cleanup of old records failed.
C12_Witness ==
  \E r \in Reqs :
    /\ pc[r] = "done"
    /\ response[r].status = 500
    /\ existingClips[r] # {}
    /\ ~TasksStarted(r)

\* The body violates a constraint of the payload schema.
ViolatesSchema(body) ==
  \/ body.malformed
  \/ body.clips = <<>>
  \/ Len(body.clips) > MaxBatch
  \/ \E k \in 1..Len(body.clips) :
       \/ body.clips[k].end_frame <= body.clips[k].start_frame
       \/ body.clips[k].start_frame < 0
       \/ body.clips[k].description = <<>>
       \/ Len(body.clips[k].description) > MaxDescription
  \/ body.fps # <<>> /\ body.fps[1] \notin 1..MaxFps
  \/ body.origin_id = <<>>
  \/ body.origin_url = "invalid"

\* Nothing has been started or touched for request r.
NoSideEffect(r) ==
  /\ embeddingsPromise[r] = "none"
  /\ workDir[r] = "none"
  /\ animationInput[r] = "none"
  /\ ~TasksStarted(r)
  /\ table = {}
  /\ store = {}

\* C13: a request whose body violates a schema constraint (a clip with
\* end_frame <= start_frame or a negative start_frame, no clips, fps outside
\* 1..240, ...) is answered 400 by its first step, and no embedding request,
\* workspace, store or table operation is ever started for it.
C13_InvalidPayloadRejectedBeforeIO ==
  \A r \in Reqs :
    ViolatesSchema(payload[r]) =>
      /\ pc[r] \in {"idle", "done"}
      /\ pc[r] = "done" => response[r].status = 400 /\ response[r].clips = <<>>
      /\ NoSideEffect(r)

\* A request whose only fault is a clip with end_frame = start_frame has been
\* rejected.
C13_Witness ==
  \E r \in Reqs :
    /\ pc[r] = "done"
    /\ response[r].status = 400
    /\ payload[r].fps = <<1>>
    /\ payload[r].origin_url = "valid"
    /\ payload[r].origin_id # <<>>
    /\ Len(payload[r].clips) = 1
    /\ payload[r].clips[1].start_frame = 1
    /\ payload[r].clips[1].end_frame = 1
    /\ payload[r].clips[1].description # <<>>

\* The non-null object keys of a list of processed clips.
NonNullKeys(clips) ==
  {key \in {clips[k].videoObjectKey : k \in 1..Len(clips)} \cup
           {clips[k].animationObjectKey : k \in 1..Len(clips)} : key # NoKey}

\* C14: whatever the outcome of each delete (deleted, object missing,
\* error), discardUploadedObjects attempts a delete for every non-null video
\* and animation key of the clips, deletes nothing else, and returns
\* normally: the handler goes on to the finally block with its 500 response
\* unchanged.
C14_RollbackNeverRaises ==
  /\ [][\A r \in Reqs :
         (pc[r] = "discard" /\ pc'[r] # "discard") =>
           /\ pc'[r] = "cleanup"
           /\ response'[r] = response[r]
           /\ deleteIssued'[r] = NonNullKeys(processedClips[r])
           /\ store' \subseteq store
           /\ store \ store' \subseteq NonNullKeys(processedClips[r])]_vars
  /\ [](\A r \in Reqs :
         /\ response[r].status = 500 /\ response[r].clips = <<>>
         /\ pc[r] \in {"cleanup", "done"} =>
              deleteIssued[r] = NonNullKeys(processedClips[r]))

\* A rollback has returned after one of its deletes removed an object, one
\* found its object missing and one failed.
C14_Witness ==
  \E r \in Reqs :
    /\ pc[r] = "done"
    /\ HasAnimation(r)
    /\ deleteIssued[r] \cap store # {}
    /\ Cardinality(deleteIssued[r] \ store) >= 2

\* C15: embedDescriptions resolves only with one vector per description, the
\* k-th being the service's k-th and of the configured dimension; with any
\* other response (error status, no embeddings array, another count, a
\* vector of another dimension) it throws and yields nothing, and the
\* handler, once the sources are acquired, answers 502 without looking up or
\* processing anything.
C15_EmbeddingsAllOrThrow ==
  \A r \in Reqs :
    LET resp == embedResponse[r]
        n == NumClips(r)
        valid == /\ resp.ok
                 /\ resp.hasEmbeddings
                 /\ Len(resp.embeddings) = n
                 /\ \A k \in 1..n : resp.embeddings[k].length = Dimensions
    IN /\ embeddingsPromise[r] = "ok" =>
            /\ valid
            /\ Len(embeddings[r]) = n
            /\ \A k \in 1..n :
                 /\ embeddings[r][k].length = Dimensions
                 /\ embeddings[r][k].values = Vector(payload[r].clips[k].description)
       /\ embeddingsPromise[r] = "fail" =>
            /\ ~valid
            /\ embeddings[r] = <<>>
            /\ pc[r] # "lookup"
            /\ pc[r] = "done" => response[r].status = 502 /\ response[r].clips = <<>>

\* The service answered with one vector too few, each of the right
\* dimension, and the request, its sources acquired, was answered 502.
C15_Witness ==
  \E r \in Reqs :
    /\ pc[r] = "done"
    /\ workDir[r] = "removed"
    /\ embeddingsPromise[r] = "fail"
    /\ response[r].status = 502
    /\ embedResponse[r].ok
    /\ embedResponse[r].hasEmbeddings
    /\ Len(embedResponse[r].embeddings) = NumClips(r) - 1
    /\ NumClips(r) = MaxClips
    /\ \A k \in 1..Len(embedResponse[r].embeddings) :
         embedResponse[r].embeddings[k].length = Dimensions

\* C16: in a 200 response the i-th clip, which is the i-th row inserted and
\* committed, carries the i-th vector embedDescriptions returned, which is
\* the vector of the i-th description.
C16_EmbeddingByPosition ==
  \A r \in Reqs :
    response[r].status = 200 =>
      \A i \in 1..NumClips(r) :
        /\ response[r].clips[i].embedding = embeddings[r][i]
        /\ embeddings[r][i] = Vector(payload[r].clips[i].description)
        /\ processedClips[r][i].embedding = embeddings[r][i]
        /\ \A row \in table : row.id = <<r, i>> => row.embedding = embeddings[r][i]

\* A success with animations whose last clip task returned first.
C16_Witness ==
  \E r \in Reqs :
    /\ pc[r] = "done"
    /\ response[r].status = 200
    /\ HasAnimation(r)
    /\ NumClips(r) = MaxClips
    /\ order[r][1] = MaxClips
    /\ \E row \in table : row.id = <<r, MaxClips>>

\* The parts of an object key: its first segment, the artifact id and the
\* extension of its last segment, and the segments between.
KeyKind(key) == key[1]
KeyArtifact(key) == key[Len(key)][1]
KeyExtension(key) == key[Len(key)][2]
KeyOrigin(key) == SubSeq(key, 2, Len(key) - 1)

VideoKeys(keys) == {key \in keys : KeyKind(key) = "clips"}
AnimationKeys(keys) == {key \in keys : KeyKind(key) = "animations"}

\* The clip tasks of request r whose video upload has returned and which
\* have not thrown.
TasksWithVideo(r) == {i \in 1..MaxClips : task[r][i] \in {"uploadAnimation", "done"}}

\* C17: every object a request uploaded is clips/{origin_id}/{id}.mp4 or
\* animations/{origin_id}/{id}.bin with the request's origin_id; the clip a
\* task returns names a video and an animation with the same id; and no two
\* clip tasks, of one request or of two, upload under the same id.
C17_ObjectKeyLayout ==
  /\ \A r \in Reqs : \A key \in uploaded[r] :
       /\ Len(key) = Len(payload[r].origin_id) + 2
       /\ KeyOrigin(key) = payload[r].origin_id
       /\ \/ KeyKind(key) = "clips" /\ KeyExtension(key) = "mp4"
          \/ KeyKind(key) = "animations" /\ KeyExtension(key) = "bin"
       /\ KeyKind(key) = "animations" =>
            \E video \in VideoKeys(uploaded[r]) :
              KeyArtifact(video) = KeyArtifact(key)
  /\ \A r \in Reqs, i \in 1..MaxClips :
       (task[r][i] = "done" /\ HasAnimation(r)) =>
         /\ results[r][i].videoObjectKey \in uploaded[r]
         /\ results[r][i].animationObjectKey \in uploaded[r]
         /\ KeyArtifact(results[r][i].videoObjectKey) =
            KeyArtifact(results[r][i].animationObjectKey)
  /\ \A r \in Reqs :
       /\ Cardinality(VideoKeys(uploaded[r])) >= Cardinality(TasksWithVideo(r))
       /\ Cardinality(AnimationKeys(uploaded[r])) >=
            Cardinality({i \in 1..MaxClips : task[r][i] = "done" /\ HasAnimation(r)})
  /\ \A r \in Reqs, q \in Reqs :
       r # q => {KeyArtifact(key) : key \in uploaded[r]} \cap
                {KeyArtifact(key) : key \in uploaded[q]} = {}

\* Two requests for one origin_id have each uploaded the videos and the
\* animations of all their clips.
C17_Witness ==
  \E r \in Reqs, q \in Reqs :
    /\ r # q
    /\ payload[r].origin_id = payload[q].origin_id
    /\ \A x \in {r, q} :
         /\ HasAnimation(x)
         /\ NumClips(x) = MaxClips
         /\ \A i \in 1..MaxClips : task[x][i] = "done"

\* C18: a clip task calls the slicer only with an animation buffer, and then
\* with the first frame start_frame and the last frame end_frame - 1, which
\* is at least start_frame: the inclusive range has exactly
\* end_frame - start_frame frames, at least one; a task that got past the
\* slice with an animation buffer has called it.
C18_SliceRange ==
  \A r \in Reqs, i \in 1..MaxClips :
    /\ sliceCall[r][i] # <<>> =>
         LET clip == payload[r].clips[i]
             first == sliceCall[r][i][1]
             last == sliceCall[r][i][2]
         IN /\ HasAnimation(r)
            /\ first = clip.start_frame
            /\ last >= first
            /\ last = clip.end_frame - 1
            /\ last - first + 1 = clip.end_frame - clip.start_frame
            /\ last - first + 1 >= 1
    /\ (HasAnimation(r) /\ task[r][i] \in {"uploadAnimation", "done"}) =>
         sliceCall[r][i] # <<>>

\* A request sliced frames 0..89 for a clip [0, 90) and the single frame of
\* a one-frame clip, and both tasks returned.
C18_Witness ==
  \E r \in Reqs :
    /\ \E i \in 1..MaxClips : task[r][i] = "done" /\ sliceCall[r][i] = <<0, 89>>
    /\ \E i \in 1..MaxClips :
         /\ task[r][i] = "done"
         /\ sliceCall[r][i] # <<>>
         /\ sliceCall[r][i][1] = sliceCall[r][i][2]

\* C19: a download is refused for its size exactly when the response declares
\* a content-length above maxDownloadSizeMB * 1048576 bytes (the maximum
\* itself is accepted, as is a response without the header or with one that
\* is no number); it is refused with nothing of the body read and, for the
\* video, without a workspace directory, and the request answers 502.
C19_SizeCheckOnContentLength ==
  \A r \in Reqs, which \in Downloads :
    LET t == download[r][which]
        declared == t.contentLength
        exceeds == /\ declared.text = "digits"
                   /\ declared.n > MaxDownloadSizeMB * 1048576
    IN /\ t.state = "tooLarge" <=> exceeds
       /\ t.state = "tooLarge" =>
            /\ t.bodyRead = 0
            /\ which = "video" => workDir[r] = "none"
            /\ response[r].status = 502 /\ response[r].clips = <<>>
       /\ t.bodyRead > 0 => ~exceeds

\* The video declared exactly the maximum size and was downloaded; the
\* animation declared one byte more and was refused.
C19_Witness ==
  \E r \in Reqs :
    /\ download[r].video.state = "complete"
    /\ download[r].video.contentLength = [text |-> "digits", n |-> MaxDownloadBytes]
    /\ download[r].video.bodyRead > 0
    /\ download[r].animation.state = "tooLarge"
    /\ download[r].animation.contentLength.n = MaxDownloadBytes + 1
    /\ pc[r] = "done"

\* A download has ended: its function returned or threw.
DownloadEnded(t) == t.state \in {"complete", "tooLarge", "failed", "aborted"}

\* C20: the timer of a download fires only while the download is under way;
\* it then aborts the fetch or the body in flight, the download never
\* completes and the request answers 502; and when a download has ended its
\* timer is not pending any more.
C20_DownloadTimeout ==
  /\ [](\A r \in Reqs, which \in Downloads :
         LET t == download[r][which] IN
         /\ DownloadEnded(t) => t.timer # "armed"
         /\ t.timer = "fired" =>
              /\ t.state \in {"aborted", "failed", "accepted"}
              /\ t.state = "accepted" => pc[r] = "dlMkdtemp"
              /\ t.state # "accepted" => response[r].status = 502
              /\ pc[r] \notin {"awaitEmbeddings", "lookup"}
              /\ ~animationBuffer[r])
  /\ [][\A r \in Reqs, which \in Downloads :
         LET t == download[r][which] IN
         (t.timer # "fired" /\ download'[r][which].timer = "fired") =>
           /\ ~DownloadEnded(t)
           /\ t.state \in {"fetch", "body"} =>
                /\ download'[r][which].state = "aborted"
                /\ response'[r].status = 502]_vars

\* The video was downloaded and its timer cancelled; the timer of the
\* animation fired with part of the body read, and the request answered 502.
C20_Witness ==
  \E r \in Reqs :
    /\ download[r].video.state = "complete"
    /\ download[r].video.timer = "cleared"
    /\ download[r].animation.timer = "fired"
    /\ download[r].animation.state = "aborted"
    /\ download[r].animation.bodyRead > 0
    /\ pc[r] = "done"
    /\ response[r].status = 502
\* The events of a process that ran and closed with exit status 0.
ClosedWithZero == <<CloseEvent(ExitCode(0))>>

\* C21: the promise of trimClip is settled once and for all; it is resolved
\* exactly when the only event of the process is a 'close' with exit status
\* 0, and rejected after any other event (an 'error', a 'close' with another
\* status or none, or an 'error' followed by a 'close'); a rejection fails
\* the clip task and the request answers 500 "Failed to process upload".
C21_TrimSettlesOnce ==
  /\ [](\A r \in Reqs, i \in 1..MaxClips :
         LET p == ffmpeg[r][i] IN
         /\ p.promise = "resolved" <=> p.events = ClosedWithZero
         /\ p.promise = "rejected" <=> (p.events # <<>> /\ p.events # ClosedWithZero)
         /\ p.promise = "rejected" =>
              /\ task[r][i] = "failed"
              /\ response[r].status = 500
              /\ response[r].error = "Failed to process upload")
  /\ [][\A r \in Reqs, i \in 1..MaxClips :
         ffmpeg[r][i].promise \in {"resolved", "rejected"} =>
           ffmpeg'[r][i].promise = ffmpeg[r][i].promise]_vars

\* Of two clips, the process of one could not be spawned and fired 'error'
\* and then 'close'; the process of the other closed with status 0 and its
\* task went on; the request answered 500.
C21_Witness ==
  \E r \in Reqs, i, j \in 1..MaxClips :
    /\ ffmpeg[r][i].events = <<ErrorEvent, CloseEvent(SpawnFailed)>>
    /\ ffmpeg[r][i].promise = "rejected"
    /\ ffmpeg[r][j].events = ClosedWithZero
    /\ ffmpeg[r][j].promise = "resolved"
    /\ task[r][j] = "done"
    /\ pc[r] = "done"
    /\ response[r].status = 500

\* An argument list has the argument x, or has a directly followed by b.
HasArg(args, x) == \E k \in 1..Len(args) : args[k] = x
HasOption(args, a, b) ==
  \E k \in 1..(Len(args) - 1) : args[k] = a /\ args[k + 1] = b

\* C22: every ffmpeg process trimClip spawns has exactly one codec mode:
\* '-c copy' without hardware flags unless transcode is true, whatever the
\* GPU setting; the GPU encoder with '-hwaccel cuda' when transcode is true
\* and GPU acceleration is enabled; libx264 without hardware flags when
\* transcode is true and it is disabled.  A call with processClip's
\* parameters is a stream copy.
C22_CodecMode ==
  \A r \in Reqs, i \in 1..MaxClips :
    LET p == ffmpeg[r][i]
        copy == HasOption(p.args, "-c", "copy")
        nvenc == HasOption(p.args, "-c:v", "gpuEncoder")
        x264 == HasOption(p.args, "-c:v", "libx264")
        cuda == HasArg(p.args, "-hwaccel") \/ HasArg(p.args, "-hwaccel_output_format")
    IN p.promise # "none" =>
         /\ Cardinality({mode \in {"copy", "nvenc", "x264"} :
              \/ mode = "copy" /\ copy
              \/ mode = "nvenc" /\ nvenc
              \/ mode = "x264" /\ x264}) = 1
         /\ p.transcode # "true" => copy /\ ~cuda
         /\ (p.transcode = "true" /\ p.config.gpuAcceleration) =>
              (nvenc /\ HasOption(p.args, "-hwaccel", "cuda"))
         /\ (p.transcode = "true" /\ ~p.config.gpuAcceleration) => x264 /\ ~cuda
         /\ p.transcode = ProcessClipTranscode => copy /\ ~nvenc /\ ~x264

\* With GPU acceleration enabled, a process spawned with processClip's
\* parameters copies the streams and closes with status 0, and one spawned
\* with transcode true uses the GPU encoder.
C22_Witness ==
  \E r \in Reqs, i, j \in 1..MaxClips :
    /\ ffmpeg[r][i].config.gpuAcceleration
    /\ ffmpeg[r][i].transcode = ProcessClipTranscode
    /\ HasOption(ffmpeg[r][i].args, "-c", "copy")
    /\ ffmpeg[r][i].promise = "resolved"
    /\ ffmpeg[r][j].transcode = "true"
    /\ HasOption(ffmpeg[r][j].args, "-c:v", "gpuEncoder")

\* The clips of the response of a request, as the animation_url of each.
AnimationUrls(r) ==
  {response[r].clips[k].animation_url : k \in 1..Len(response[r].clips)}

\* C23: in a successful response, every clip has a non-null animation_url
\* when the request carried an animation file, or no file but anim_url in
\* its body; every clip has a null animation_url and nothing was uploaded
\* under animations/ when it carried neither.
C23_AnimationFromUrlOrFile ==
  \A r \in Reqs :
    (request[r] # NoRequest /\ pc[r] = "done" /\ response[r].status = 200) =>
      IF "animation" \in request[r].files \/ "anim_url" \in request[r].keys
      THEN NoUrl \notin AnimationUrls(r)
      ELSE /\ AnimationUrls(r) = {NoUrl}
           /\ AnimationKeys(uploaded[r]) = {}

\* C24: a request in either format is answered 400 for a missing video
\* source exactly when it carries neither a video file nor origin_url.
C24_OneVideoSourceSuffices ==
  \A r \in Reqs :
    (request[r] # NoRequest /\ pc[r] # "idle") =>
      (response[r].status = 400 <=>
         ("video" \notin request[r].files /\ "origin_url" \notin request[r].keys))

\* The limits the README states for a description and for the clip list.
DocumentedMaxDescription == 1024
DocumentedMaxClips == 100

\* A body with every description replaced by a valid one, and with its clip
\* list replaced by a valid one.
WithGoodDescriptions(body) ==
  [body EXCEPT !.clips =
     [k \in 1..Len(body.clips) |-> [body.clips[k] EXCEPT !.description = <<"d">>]]]
WithGoodClips(body) == [body EXCEPT !.clips = <<GoodClip>>]

\* The request was answered 400 because validation failed.
RejectedByValidation(r) ==
  pc[r] = "done" /\ response[r].status = 400 /\ response[r].error = "ZodError"

\* C25: a body that is valid apart from its descriptions is rejected by
\* validation exactly when some description is empty or longer than 1024
\* characters.
C25_DescriptionLength ==
  \A r \in Reqs :
    (/\ pc[r] # "idle"
     /\ ~payload[r].malformed
     /\ UploadPayloadSchema(WithGoodDescriptions(payload[r]))) =>
      (RejectedByValidation(r) <=>
         \E k \in 1..Len(payload[r].clips) :
           \/ Len(payload[r].clips[k].description) < 1
           \/ Len(payload[r].clips[k].description) > DocumentedMaxDescription)

\* C26: a body that is valid apart from the number of its clips, each clip
\* being valid, is rejected by validation exactly when it has no clip or
\* more than 100; and an accepted clip list is no longer than the embedding
\* batch limit.
C26_ClipCount ==
  \A r \in Reqs :
    (/\ pc[r] # "idle"
     /\ ~payload[r].malformed
     /\ UploadPayloadSchema(WithGoodClips(payload[r]))
     /\ \A k \in 1..Len(payload[r].clips) : ClipInputSchema(payload[r].clips[k])) =>
      /\ RejectedByValidation(r) <=>
           (Len(payload[r].clips) < 1 \/ Len(payload[r].clips) > DocumentedMaxClips)
      /\ ~RejectedByValidation(r) => Len(payload[r].clips) <= MaxBatch

\* C27: when a clip task has failed after its video upload returned, the
\* request's rollback has issued a delete for that clip's video object by the
\* time the request has answered.
C27_LaterStepFailureDeletesVideo ==
  \A r \in Reqs, i \in 1..MaxClips :
    LET key == VideoObjectKey(payload[r].origin_id, AssetId(r, i)) IN
    (pc[r] = "done" /\ task[r][i] = "failed" /\ key \in uploaded[r]) =>
      key \in deleteIssued[r]


\* ------------------------------------------------------------------ C28

\* Request r passed the old-record cleanup for an origin_id that had rows
\* and then failed in clip processing or in the insert transaction.
PurgedThenFailed(r) ==
  /\ existingClips[r] # {}
  /\ PurgeCall("deleteClipsByOriginId", TRUE) \in Range(purgeLog[r])
  /\ response[r].status = 500

\* The rows of an origin_id committed by requests other than r.
RowsOfOthers(rows, r, originId) ==
  {row \in RowsOfOrigin(rows, originId) : row.id[1] # r}

\* C28: after a request for an origin_id that already had rows passed the
\* purge step and then failed in clip processing or in the insert
\* transaction, none of the old rows is back and no row of the request was
\* added: the only rows of that origin_id are rows another request committed
\* after this request's lookup, and without such a request zero rows exist.
C28_NoRestoreNoNewRow ==
  \A r \in Reqs :
    PurgedThenFailed(r) =>
      LET rows == RowsOfOrigin(table, payload[r].origin_id) IN
      /\ response[r].error = "Failed to process upload"
      /\ existingClips[r] \cap table = {}
      /\ RowsOfRequest(table, r) = {}
      /\ RowsOfOthers(table, r, payload[r].origin_id) = {} => rows = {}

\* A request found rows, purged them, failed and has answered; no row of its
\* origin_id exists.
C28_Witness ==
  \E r \in Reqs :
    /\ PurgedThenFailed(r)
    /\ pc[r] = "done"
    /\ RowsOfOrigin(table, payload[r].origin_id) = {}


\* ------------------------------------------------------------------ C29

\* A call of the old-record cleanup of request r threw.
PurgeFailed(r) ==
  \E k \in 1..Len(purgeLog[r]) : ~purgeLog[r][k].ok

\* C29: when the old-record cleanup fails (the row lookup, the object
\* listing or batch delete of either prefix, or the row delete throws), the
\* request is answered 500 with the error "Failed to cleanup old records",
\* its workspace is removed, no clip task is started, no object is uploaded
\* and no row is inserted.
C29_PurgeFailureEndsRequest ==
  \A r \in Reqs :
    PurgeFailed(r) =>
      /\ response[r].status = 500
      /\ response[r].error = "Failed to cleanup old records"
      /\ response[r].clips = <<>>
      /\ ~purgeLog[r][Len(purgeLog[r])].ok
      /\ pc[r] \in {"cleanup", "done"}
      /\ pc[r] = "done" => workDir[r] = "removed"
      /\ \A i \in 1..MaxClips : task[r][i] = "none"
      /\ uploaded[r] = {}
      /\ tx[r] = <<>>
      /\ RowsOfRequest(table, r) = {}

\* A request whose lookup found rows failed inside the purge and has
\* answered.
C29_Witness ==
  \E r \in Reqs :
    /\ PurgeFailed(r)
    /\ Len(purgeLog[r]) >= 2
    /\ pc[r] = "done"


\* ------------------------------------------------------------------ C30

\* The calls of the old-record cleanup in the order of the handler.
PurgeCalls ==
  <<"getClipsByOriginId", "deleteObjects:clips", "deleteObjects:animations",
    "deleteClipsByOriginId">>

\* The calls request r has issued are the first calls of PurgeCalls, each one
\* issued after the one before it returned; a call after the lookup is issued
\* only when the lookup found a row, and then the object cleanup follows.
PurgeDrivenByLookup(r) ==
  LET log == purgeLog[r]
      n == Len(log)
  IN /\ n <= Len(PurgeCalls)
     /\ \A k \in 1..n : /\ log[k].call = PurgeCalls[k]
                        /\ k < n => log[k].ok
     /\ n >= 2 => existingClips[r] # {}
     /\ pc[r] \in {"purgeClips", "purgeAnimations", "deleteRows"} =>
          /\ existingClips[r] # {}
          /\ log[n].ok
          /\ n = CASE pc[r] = "purgeClips" -> 1
                   [] pc[r] = "purgeAnimations" -> 2
                   [] OTHER -> 3
     /\ (n = 1 /\ log[1].ok /\ existingClips[r] # {}) => pc[r] = "purgeClips"

\* A step that removes a row is the row delete of a request whose lookup
\* found rows and whose two object cleanups returned; a step that removes an
\* object is an object cleanup of such a request or a rollback.
PurgeStep ==
  /\ ~(table \subseteq table') =>
       \E r \in Reqs :
         /\ pc[r] = "deleteRows"
         /\ existingClips[r] # {}
         /\ Len(purgeLog[r]) = 3
         /\ \A k \in 1..3 : purgeLog[r][k].ok
         /\ purgeLog'[r] = Append(purgeLog[r], PurgeCall("deleteClipsByOriginId", TRUE))
  /\ ~(store \subseteq store') =>
       \E r \in Reqs :
         \/ pc[r] = "discard"
         \/ /\ pc[r] \in {"purgeClips", "purgeAnimations"}
            /\ existingClips[r] # {}
            /\ purgeLog[r][1].ok
            /\ Len(purgeLog'[r]) = Len(purgeLog[r]) + 1

\* C30: the purge is driven by the row lookup: when the lookup finds no row
\* the request issues no object listing, no object delete and no row delete;
\* when it finds a row the objects under both prefixes are deleted first and
\* the rows are deleted only after the object deletion returned.
C30_PurgeDrivenByLookup ==
  /\ [](\A r \in Reqs : PurgeDrivenByLookup(r))
  /\ [][PurgeStep]_vars

\* One request found no row and went through without any cleanup call; a later
\* request found its rows, deleted the objects of both prefixes and then the
\* rows.
C30_Witness ==
  \E r, q \in Reqs :
    /\ purgeLog[r] = <<PurgeCall("getClipsByOriginId", TRUE)>>
    /\ existingClips[r] = {}
    /\ response[r].status = 200
    /\ Len(purgeLog[q]) = 4
    /\ \A k \in 1..4 : purgeLog[q][k].ok
    /\ RowsOfRequest(existingClips[q], r) # {}


\* ------------------------------------------------------------------ C31

\* The objects under the two prefixes of the origin_id of request r.
UnderPrefixes(keys, r) ==
  ListObjects(keys, "clips", payload[r].origin_id) \cup
  ListObjects(keys, "animations", payload[r].origin_id)

NoDuplicates(s) == \A j, k \in 1..Len(s) : s[j] = s[k] => j = k

\* What deletedKeys holds was listed under one of the two prefixes and is
\* held once; the prefixes are visited in order and a page is followed while
\* the store returns a marker; when the call returns without an upload having
\* landed in between, no object is left under either prefix.
PurgeState(r) ==
  LET p == objectPurge[r] IN
  /\ NoDuplicates(p.deletedKeys)
  /\ Range(p.deletedKeys) \subseteq UnderPrefixes(Range(ObjectNames), r)
  /\ p.concurrentPuts = 0 => Range(p.deletedKeys) \cap store = {}
  /\ p.state = "delete" =>
       /\ Len(p.objects) \in 1..PageSize
       /\ Range(p.objects) \subseteq store
  /\ (p.state = "list" /\ p.prefix = 2 /\ p.concurrentPuts = 0) =>
       ListObjects(store, "clips", payload[r].origin_id) = {}
  /\ (p.state = "returned" /\ p.concurrentPuts = 0) => UnderPrefixes(store, r) = {}

\* A step removes from the store exactly the keys it appends to deletedKeys:
\* the page that was listed and passed to the batch delete.
PurgeDeletes ==
  /\ store \ store' =
       UNION {Range(objectPurge'[r].deletedKeys) \ Range(objectPurge[r].deletedKeys) :
                r \in Reqs}
  /\ \A r \in Reqs :
       LET p == objectPurge[r]
           q == objectPurge'[r]
       IN /\ IsPrefix(p.deletedKeys, q.deletedKeys)
          /\ q.deletedKeys # p.deletedKeys =>
               /\ p.state = "delete"
               /\ q.deletedKeys = p.deletedKeys \o p.objects

\* C31: deleteObjectsByOriginId terminates (it returns or throws), visits
\* both prefixes and every page of each, passes every listed key to a batch
\* delete and returns exactly the keys it deleted; absent concurrent uploads
\* no object remains under either prefix when it returns.
C31_PurgeAllPages ==
  /\ [](\A r \in Reqs : PurgeState(r))
  /\ [][PurgeDeletes]_vars
  /\ <>(\A r \in Reqs : objectPurge[r].state \in {"none", "returned", "threw"})

\* The call returned after more than one page under each prefix, with no
\* upload in between.
C31_Witness ==
  \E r \in Reqs :
    LET p == objectPurge[r] IN
    /\ p.state = "returned"
    /\ p.concurrentPuts = 0
    /\ Cardinality(ListObjects(Range(p.deletedKeys), "clips", payload[r].origin_id)) > PageSize
    /\ Cardinality(ListObjects(Range(p.deletedKeys), "animations", payload[r].origin_id)) > PageSize


\* ------------------------------------------------------------------ C32

\* Every settled deleteObject call: an answer of 404 (like one of 204) makes
\* the call complete without error, any other error of the store is thrown
\* to the caller, and after a call that completed the object is not there.
DeleteObjectLog ==
  \A k \in 1..Len(deleteLog) :
    LET call == deleteLog[k] IN
    /\ call.statusCode = NotFound => (call.outcome = "resolved" /\ ~call.existed)
    /\ call.statusCode = Deleted => call.outcome = "resolved"
    /\ call.statusCode \in ErrorStatusCodes \ {NotFound} => call.outcome = "rejected"
    /\ call.outcome = "resolved" => call.key \notin store

\* A deleteObject call for a key without object changes nothing in the store,
\* and after a call that completed the object is not there.
DeleteObjectStep ==
  Len(deleteLog') = Len(deleteLog) + 1 =>
    LET call == deleteLog'[Len(deleteLog')] IN
    /\ ~call.existed => store' = store
    /\ call.outcome = "resolved" => store' = store \ {call.key}
    /\ call.outcome = "rejected" => store' = store

\* C32: deleteObject is idempotent: deleting a key whose object does not
\* exist (the store answers 404) completes without error, so deleting a key
\* twice has the same outcome as deleting it once; every store error other
\* than 404 is propagated to the caller.
C32_DeleteObjectIdempotent ==
  /\ []DeleteObjectLog
  /\ [][DeleteObjectStep]_vars

\* A key was deleted twice in a row: the first call removed the object, the
\* store answered the second with 404, and both calls completed.
C32_Witness ==
  \E k \in 1..(Len(deleteLog) - 1) :
    /\ deleteLog[k].key = deleteLog[k + 1].key
    /\ deleteLog[k].existed /\ deleteLog[k].outcome = "resolved"
    /\ deleteLog[k + 1].statusCode = NotFound
    /\ deleteLog[k + 1].outcome = "resolved"


\* ------------------------------------------------------------------ C33

Running == {"trim", "uploadVideo", "uploadAnimation"}

\* C33: the clip tasks of a request are not serialized: all of them are
\* started before any is awaited (once one task exists, the task of every
\* clip of the request exists), and they complete in any order: order lists
\* the fulfilled tasks once each, with no relation to their positions.
C33_TasksNotSerialized ==
  \A r \in Reqs :
    /\ (\E i \in 1..MaxClips : task[r][i] # "none") =>
         \A i \in 1..NumClips(r) : task[r][i] # "none"
    /\ NoDuplicates(order[r])
    /\ Range(order[r]) = {i \in 1..MaxClips : task[r][i] = "done"}

\* The task of the second clip has completed while the task of the first
\* clip is still running, and another request's tasks completed in input
\* order.
C33_Witness ==
  \E r, q \in Reqs :
    /\ order[r] = <<2>>
    /\ task[r][1] \in Running
    /\ order[q] = <<1, 2>>


\* ------------------------------------------------------------------ C34

\* C34: once the handler has removed the workspace and returned its response,
\* no clip task of that request is still running, and the request uploads no
\* further object.
C34_NoTaskAfterResponse ==
  [][\A r \in Reqs :
       pc[r] = "done" =>
         /\ \A i \in 1..MaxClips : task[r][i] \notin Running
         /\ uploaded'[r] = uploaded[r]]_vars


\* ------------------------------------------------------------------ C35

\* C35: in every reachable state every persisted row's video_url, and its
\* animation_url when it is not null, refers to an object that exists in
\* object storage.
C35_RowsReferToObjects ==
  \A row \in table :
    /\ row.video_url.url \in store
    /\ row.animation_url # NoUrl => row.animation_url.url \in store


\* ------------------------------------------------------------------ C36

\* The origin_id an object key was built from: the segments between the kind
\* and the file name.
OriginOf(key) == SubSeq(key, 2, Len(key) - 1)

\* C36: a request for origin_id X never deletes a stored object that belongs
\* to a different origin_id Y, also when X and Y contain '/' and clips/X/ is a
\* prefix of clips/Y/: every object a step removes from the store is an
\* object of the origin_id of the request whose cleanup removes it.
C36_OtherOriginsUntouched ==
  [][\A key \in store \ store' :
       \E r \in Reqs : /\ objectPurge[r].state = "delete"
                       /\ OriginOf(key) = payload[r].origin_id]_vars


\* ------------------------------------------------------------------ C37

\* C37: inside one workspace the staged source video, the staged animation
\* file and the temporary files of the clip tasks occupy pairwise distinct
\* paths, whatever the uploaded file names and URL basenames are; staging the
\* animation never overwrites the staged source video.
C37_DistinctWorkspacePaths ==
  \A r \in Reqs :
    LET files == workFiles[r] IN
    /\ (files.videoSourcePath # NoPath /\ files.animationPath # NoPath) =>
         files.videoSourcePath # files.animationPath
    /\ files.videoSourcePath # NoPath =>
         files.named[files.videoSourcePath] = "video"


\* ------------------------------------------------------------------ C38

\* C38: the outcome of the embedding request is always observed by the
\* handler: it never returns its response while the request is still
\* pending, nor after the request failed without having awaited and handled
\* that failure (which it answers with "Failed to embed descriptions").
C38_EmbeddingOutcomeObserved ==
  \A r \in Reqs :
    pc[r] = "done" =>
      /\ embeddingsPromise[r] # "pending"
      /\ embeddingsPromise[r] = "fail" =>
           response[r].error = "Failed to embed descriptions"

=============================================================================
